---------------------------- MODULE Spec2Model ----------------------------
(***************************************************************************)
(* Contact endpoint of the smile-support site: the serverless handler      *)
(* (api/contact), the Express route app.post("/api/contact") and the       *)
(* library they rest on (lib/contact).                                     *)
(*                                                                         *)
(* Text is a sequence of one-character strings.  Characters outside ASCII  *)
(* are written by their code point ("U5BCC" is U+5BCC).  The localized     *)
(* messages of the source are written as ASCII glosses; two glosses are    *)
(* equal exactly when the source strings are equal.                        *)
(***************************************************************************)
EXTENDS Naturals, Sequences, FiniteSets

(***************************************************************************)
(* JavaScript values                                                       *)
(***************************************************************************)
Undefined == [t |-> "undefined"]

Null == [t |-> "null"]

Str(s) == [t |-> "string", v |-> s]

Num(n) == [t |-> "number", v |-> n]

Bool(b) == [t |-> "boolean", v |-> b]

\* typeof x
TypeOf(x) == IF x.t = "null" THEN "object" ELSE x.t

\* ToBoolean(x), as used by !x, x ? a : b and x || y
Truthy(x) ==
    CASE x.t = "undefined" -> FALSE
      [] x.t = "null"      -> FALSE
      [] x.t = "string"    -> Len(x.v) > 0
      [] x.t = "number"    -> x.v # 0
      [] x.t = "boolean"   -> x.v
      [] OTHER             -> TRUE

\* d.k for an object d: an absent property reads as undefined
Prop(d, k) == IF k \in DOMAIN d.f THEN d.f[k] ELSE Undefined

(***************************************************************************)
(* String built-ins                                                        *)
(***************************************************************************)
\* the characters matched by \s that the model draws from
WhiteSpace == {" ", "\t", "\n", "U3000"}

UpperCase == <<"A", "B", "C", "D", "E", "F", "G", "H", "I", "J", "K", "L", "M",
               "N", "O", "P", "Q", "R", "S", "T", "U", "V", "W", "X", "Y", "Z">>

LowerCase == <<"a", "b", "c", "d", "e", "f", "g", "h", "i", "j", "k", "l", "m",
               "n", "o", "p", "q", "r", "s", "t", "u", "v", "w", "x", "y", "z">>

RECURSIVE TrimStart(_)
TrimStart(s) ==
    IF s # <<>> /\ Head(s) \in WhiteSpace THEN TrimStart(Tail(s)) ELSE s

RECURSIVE TrimEnd(_)
TrimEnd(s) ==
    IF s # <<>> /\ s[Len(s)] \in WhiteSpace
    THEN TrimEnd(SubSeq(s, 1, Len(s) - 1))
    ELSE s

\* String.prototype.trim
Trim(s) == TrimEnd(TrimStart(s))

LowerChar(c) ==
    IF \E i \in 1..Len(UpperCase) : UpperCase[i] = c
    THEN LowerCase[CHOOSE i \in 1..Len(UpperCase) : UpperCase[i] = c]
    ELSE c

\* String.prototype.toLowerCase
ToLowerCase(s) == [i \in 1..Len(s) |-> LowerChar(s[i])]

\* s.replace(/\s+/g, "")
RemoveWhiteSpace(s) == SelectSeq(s, LAMBDA c : c \notin WhiteSpace)

\* s.replace(/\./g, "")
RemoveDots(s) == SelectSeq(s, LAMBDA c : c # ".")

\* s.includes(c) for a one-character c
Includes(s, c) == \E i \in 1..Len(s) : s[i] = c

(***************************************************************************)
(* lib/contact                                                             *)
(***************************************************************************)
SECURITY_ANSWER_VARIANTS ==
    << <<"U5BCC", "U58EB", "U5C71">>,
       <<"U3075", "U3058", "U3055", "U3093">>,
       <<"U30D5", "U30B8", "U30B5", "U30F3">>,
       <<"f", "u", "j", "i", "s", "a", "n">>,
       <<"m", "t", ".", "f", "u", "j", "i">>,
       <<"m", "t", "f", "u", "j", "i">>,
       <<"m", "o", "u", "n", "t", " ", "f", "u", "j", "i">> >>

\* variant: the dots of the answer are kept
NormalizeAnswerKeepsDots(answer) == RemoveWhiteSpace(ToLowerCase(Trim(answer)))

\* answer.trim().toLowerCase().replace(/\s+/g, "").replace(/\./g, "")
NormalizeAnswer(answer) == RemoveDots(RemoveWhiteSpace(ToLowerCase(Trim(answer))))

\* variant.toLowerCase().replace(/\s+/g, "").replace(/\./g, "")
NormalizeVariant(variant) == RemoveDots(RemoveWhiteSpace(ToLowerCase(variant)))

\* answer is the text of a string value
validateSecurityAnswer(answer) ==
    \E i \in 1..Len(SECURITY_ANSWER_VARIANTS) :
        NormalizeAnswer(answer) = NormalizeVariant(SECURITY_ANSWER_VARIANTS[i])

\* variant: d.message.length > 0, without trim()
validateContactFormNoTrim(data) ==
    IF TypeOf(data) # "object" \/ data = Null
    THEN FALSE
    ELSE /\ TypeOf(Prop(data, "name")) = "string"
         /\ Len(Trim(Prop(data, "name").v)) > 0
         /\ TypeOf(Prop(data, "email")) = "string"
         /\ Includes(Prop(data, "email").v, "@")
         /\ TypeOf(Prop(data, "message")) = "string"
         /\ Len(Prop(data, "message").v) > 0
         /\ TypeOf(Prop(data, "securityAnswer")) = "string"

validateContactForm(data) ==
    IF TypeOf(data) # "object" \/ data = Null
    THEN FALSE
    ELSE /\ TypeOf(Prop(data, "name")) = "string"
         /\ Len(Trim(Prop(data, "name").v)) > 0
         /\ TypeOf(Prop(data, "email")) = "string"
         /\ Includes(Prop(data, "email").v, "@")
         /\ TypeOf(Prop(data, "message")) = "string"
         /\ Len(Trim(Prop(data, "message").v)) > 0
         /\ TypeOf(Prop(data, "securityAnswer")) = "string"


\* text.replace is not a function unless text is a string (TypeError)
escapeHtmlThrows(text) == TypeOf(text) # "string"

\* variant: the map has no entry that changes the apostrophe
escapeHtmlMapKeepsApostrophe ==
    [c \in {"&", "<", ">", "\"", "'"} |->
        CASE c = "&"  -> <<"&", "a", "m", "p", ";">>
          [] c = "<"  -> <<"&", "l", "t", ";">>
          [] c = ">"  -> <<"&", "g", "t", ";">>
          [] c = "\"" -> <<"&", "q", "u", "o", "t", ";">>
          [] c = "'"  -> <<"'">>]

\* const map: Record<string, string>
escapeHtmlMap ==
    [c \in {"&", "<", ">", "\"", "'"} |->
        CASE c = "&"  -> <<"&", "a", "m", "p", ";">>
          [] c = "<"  -> <<"&", "l", "t", ";">>
          [] c = ">"  -> <<"&", "g", "t", ";">>
          [] c = "\"" -> <<"&", "q", "u", "o", "t", ";">>
          [] c = "'"  -> <<"&", "#", "0", "3", "9", ";">>]

\* text.replace(/[...]/g, (char) => m[char] || char), the class being the keys of m:
\* one scan from left to right, the replacements are not scanned again
RECURSIVE ReplaceEach(_, _)
ReplaceEach(text, m) ==
    IF text = <<>> THEN <<>>
    ELSE (IF Head(text) \in DOMAIN m THEN m[Head(text)] ELSE <<Head(text)>>)
         \o ReplaceEach(Tail(text), m)

\* variant: & is replaced in a second scan, after the other four
escapeHtmlTwoScans(text) ==
    ReplaceEach(ReplaceEach(text, [c \in {"<", ">", "\"", "'"} |-> escapeHtmlMap[c]]),
                [c \in {"&"} |-> escapeHtmlMap[c]])

\* escapeHtml of a string
escapeHtml(text) == ReplaceEach(text, escapeHtmlMap)

(***************************************************************************)
(* Localized messages (glosses of the source strings)                      *)
(***************************************************************************)
\* lib/contact sendContactEmail
LibMsgAccepted == "Your inquiry has been received. We will contact you within 2 business days."

LibErrSendFailed == "Sending the mail failed. Please try again after a while."

\* api/contact handler
SlErrMethod == "Method not allowed"

SlErrShape == "The input is incomplete. Please fill in all required items."

SlErrSecurity == "The security answer is not correct. Enter the name of the highest mountain in Japan."

SlErrToken == "Please complete reCAPTCHA authentication."

\* variant: the message of the token gate is used again
SlErrRecaptchaAsToken == "Please complete reCAPTCHA authentication."

SlErrRecaptcha == "reCAPTCHA authentication failed. Please try once more."

SlErrConfig == "There is a problem with the server configuration. Please contact the administrator."

(***************************************************************************)
(* State                                                                   *)
(***************************************************************************)
VARIABLES
    env,        \* process.env: RECAPTCHA_SECRET_KEY, GMAIL_USER, GMAIL_APP_PASSWORD
    req,        \* the request both deployments receive: method and parsed body
    req2,       \* a second request, handled at the same time by further instances
    pc,         \* per handler instance: where its async function is suspended
    gates,      \* per instance: the gates evaluated so far, in order
    vr,         \* per instance: the value verifyRecaptcha returned
    calls,      \* per instance: outbound calls issued so far, in order
    sent,       \* per instance: the messages handed to sendMail, in order
    inflight,   \* per instance: outbound calls issued and not yet settled
    outcomes,   \* per instance: how its awaited promises settled, in order
    responses,  \* per instance: the responses written, in order
    fn,         \* a direct call of one exported function: name, argument, result
    page        \* the Home page: its React state, the render its handlers belong to,
                \* the reCAPTCHA widget and the submissions it has under way

handlerVars == <<env, req, req2, pc, gates, vr, calls, sent, inflight, outcomes, responses>>

vars == <<env, req, req2, pc, gates, vr, calls, sent, inflight, outcomes, responses, fn, page>>

\* no direct call is being made
FnIdle == [f |-> "none", st |-> "idle"]

\* the fields of the contact form
FormFields == {"name", "company", "email", "phone", "message", "securityAnswer"}

\* { name: "", company: "", email: "", phone: "", message: "", securityAnswer: "" }
EmptyForm == [k \in FormFields |-> Str(<<>>)]

\* the three useState values of the page
ReactState(p) ==
    [formData |-> p.formData, isSubmitting |-> p.isSubmitting,
     recaptchaToken |-> p.recaptchaToken]

\* the page as mounted: the useState initial values, no token issued, nothing sent
PageInit ==
    [formData |-> EmptyForm,
     isSubmitting |-> FALSE,
     recaptchaToken |-> Null,
     rendered |-> [formData |-> EmptyForm, isSubmitting |-> FALSE, recaptchaToken |-> Null],
     widget |-> "unchecked",
     issued |-> 0,
     flights |-> <<>>,
     posted |-> <<>>,
     toast |-> [kind |-> "none", text |-> ""],
     last |-> [ev |-> "mounted"]]

ServerlessInstances == {"serverless"}

ExpressInstances == {"express"}

Instances == ServerlessInstances \cup ExpressInstances

\* the instances that handle the second request
SecondInstances == {"serverless2", "express2"}

ServerlessHandlers == ServerlessInstances \cup {"serverless2"}

ExpressHandlers == ExpressInstances \cup {"express2"}

Handlers == ServerlessHandlers \cup ExpressHandlers

\* the request that instance h handles
Request(h) == IF h \in SecondInstances THEN req2 ELSE req

\* no second request
NoRequest == [method |-> "GET", body |-> Undefined]

\* names of the outbound calls
CallVerify == "fetch siteverify"

CallNotification == "sendMail mailOptions"

CallAutoReply == "sendMail autoReplyOptions"

(***************************************************************************)
(* Inputs                                                                  *)
(***************************************************************************)
TextTaro == <<"T", "a", "r", "o">>

TextMtFuji == <<" ", "M", "t", ".", " ", "F", "u", "j", "i", " ">>

NameValues == {Undefined, Str(<<" ">>), Str(TextTaro)}

EmailValues == {Undefined, Str(<<"a", "b">>), Str(<<"a", "@", "b">>)}

MessageValues == {Str(<<" ", "\n">>), Str(<<"h", "i">>)}

AnswerValues == {Undefined, Str(<<"a", "s", "o">>), Str(TextMtFuji)}

CompanyValues == {Undefined, Str(<<"c", "o">>), Num(5)}

PhoneValues == {Undefined, Str(<<"0", "3">>), Num(5)}

TokenValues == {Undefined, Str(<<>>), Str(<<"t", "o", "k">>), Num(7)}

ObjectBodies ==
    { [t |-> "object",
       f |-> [name |-> n, company |-> c, email |-> e, phone |-> p,
              message |-> m, securityAnswer |-> a, recaptchaToken |-> k]] :
        n \in NameValues, c \in CompanyValues, e \in EmailValues,
        p \in PhoneValues, m \in MessageValues, a \in AnswerValues,
        k \in TokenValues }

Bodies == {Undefined, Null, Str(TextTaro), [t |-> "object", f |-> <<>>]} \cup ObjectBodies

Methods == {"POST", "GET", "PUT"}

SecretValues == {Undefined, Str(<<>>), Str(<<"k", "e", "y">>)}

UserValues == {Undefined, Str(<<"o", "p", "@", "g">>)}

PasswordValues == {Undefined, Str(<<"p", "w">>)}

\* how an awaited fetch or sendMail settles
Rejections == { [result |-> "rejected", error |-> e] : e \in {"Network error", "SMTP error"} }

Resolved == [result |-> "resolved"]

\* how response.json() settles: parsed data, or a rejection
JsonData ==
    { [t |-> "object", f |-> [success |-> Bool(TRUE)]],
      [t |-> "object", f |-> [success |-> Bool(FALSE)]],
      [t |-> "object", f |-> [score |-> Num(1)]],
      Null }

JsonOutcomes == { [result |-> "resolved", data |-> d] : d \in JsonData } \cup Rejections

Init ==
    /\ env \in [RECAPTCHA_SECRET_KEY : SecretValues,
                GMAIL_USER : UserValues,
                GMAIL_APP_PASSWORD : PasswordValues]
    /\ req \in [method : Methods, body : Bodies]
    /\ req2 = NoRequest
    /\ pc = [h \in Handlers |-> IF h \in Instances THEN "start" ELSE "idle"]
    /\ gates = [h \in Handlers |-> <<>>]
    /\ vr = [h \in Handlers |-> Undefined]
    /\ calls = [h \in Handlers |-> <<>>]
    /\ sent = [h \in Handlers |-> <<>>]
    /\ inflight = [h \in Handlers |-> {}]
    /\ outcomes = [h \in Handlers |-> <<>>]
    /\ responses = [h \in Handlers |-> <<>>]
    /\ fn = FnIdle
    /\ page = PageInit

(***************************************************************************)
(* Steps shared by the actions                                             *)
(***************************************************************************)
\* variant: the response is written twice
RespondTwice(h, status, body) ==
    /\ responses' = [responses EXCEPT ![h] =
                        @ \o <<[status |-> status, body |-> body],
                               [status |-> status, body |-> body]>>]
    /\ pc' = [pc EXCEPT ![h] = "done"]

\* res.status(status).json(body); return
Respond(h, status, body) ==
    /\ responses' = [responses EXCEPT ![h] = Append(@, [status |-> status, body |-> body])]
    /\ pc' = [pc EXCEPT ![h] = "done"]

\* the promise awaited at position a settles with outcome o
Logged(h, a, o) == outcomes' = [outcomes EXCEPT ![h] = Append(@, [await |-> a, o |-> o])]

\* the last awaited promise of call c settles with outcome o
Settle(h, c, a, o) ==
    /\ Logged(h, a, o)
    /\ inflight' = [inflight EXCEPT ![h] = @ \ {c}]

\* await p throws when p rejects
awaitThrows(o) == o.result = "rejected"

\* an outbound call c is issued and awaited at position p
Issue(h, c, p) ==
    /\ calls' = [calls EXCEPT ![h] = Append(@, c)]
    /\ inflight' = [inflight EXCEPT ![h] = @ \cup {c}]
    /\ pc' = [pc EXCEPT ![h] = p]

\* transporter.sendMail(m): the message handed to the transporter
Sent(h, m) == sent' = [sent EXCEPT ![h] = Append(@, m)]

Evaluated(h, gs) == gates' = [gates EXCEPT ![h] = @ \o gs]

(***************************************************************************)
(* lib/contact: verifyRecaptcha                                            *)
(***************************************************************************)
\* variant: if (secretKey === undefined) return true
verifyRecaptchaSkipsUndefinedOnly(secretKey) == secretKey = Undefined

\* if (!secretKey) return true: whether the call to the endpoint is skipped
verifyRecaptchaSkips(secretKey) == ~Truthy(secretKey)

\* variant: return true once the endpoint has answered
verifyRecaptchaResultIgnoresData(data) == Bool(TRUE)

\* variant: return data.success !== false
verifyRecaptchaResultUnlessFalse(data) ==
    IF data = Null THEN Bool(FALSE) ELSE Bool(Prop(data, "success") # Bool(FALSE))

\* return data.success, or false from the catch clause when reading it throws
verifyRecaptchaResult(data) ==
    IF data = Null THEN Bool(FALSE) ELSE Prop(data, "success")

\* the awaited fetch settles
verifyRecaptchaFetched(h) ==
    /\ pc[h] = "fetch"
    /\ \E o \in {Resolved} \cup Rejections :
        /\ Logged(h, "fetch", o)
        /\ IF awaitThrows(o)
           THEN /\ vr' = [vr EXCEPT ![h] = Bool(FALSE)]
                /\ inflight' = [inflight EXCEPT ![h] = @ \ {CallVerify}]
                /\ pc' = [pc EXCEPT ![h] = "verified"]
           ELSE /\ pc' = [pc EXCEPT ![h] = "json"]
                /\ UNCHANGED <<vr, inflight>>
    /\ UNCHANGED <<fn, page, env, req, req2, gates, calls, sent, responses>>

\* the awaited response.json() settles
verifyRecaptchaParsed(h) ==
    /\ pc[h] = "json"
    /\ \E o \in JsonOutcomes :
        /\ Settle(h, CallVerify, "json", o)
        /\ vr' = [vr EXCEPT ![h] =
                    IF awaitThrows(o)
                    THEN Bool(FALSE)
                    ELSE verifyRecaptchaResult(o.data)]
    /\ pc' = [pc EXCEPT ![h] = "verified"]
    /\ UNCHANGED <<fn, page, env, req, req2, gates, calls, sent, responses>>

(***************************************************************************)
(* lib/contact: sendContactEmail                                           *)
(***************************************************************************)
\* `${x}` in a template literal: String(x)
RECURSIVE NumberText(_)
NumberText(n) ==
    IF n < 10 THEN <<<<"0", "1", "2", "3", "4", "5", "6", "7", "8", "9">>[n + 1]>>
    ELSE NumberText(n \div 10) \o NumberText(n % 10)

TemplateText(x) ==
    CASE x.t = "string"    -> x.v
      [] x.t = "undefined" -> <<"u", "n", "d", "e", "f", "i", "n", "e", "d">>
      [] x.t = "null"      -> <<"n", "u", "l", "l">>
      [] x.t = "number"    -> NumberText(x.v)
      [] x.t = "boolean"   -> IF x.v THEN <<"t", "r", "u", "e">>
                              ELSE <<"f", "a", "l", "s", "e">>
      [] OTHER             -> <<"[", "o", "b", "j", "e", "c", "t", " ",
                                "O", "b", "j", "e", "c", "t", "]">>

(***************************************************************************)
(* lib/contact: the two messages of sendContactEmail. A text is a sequence *)
(* whose elements are the characters of the interpolated values, one       *)
(* element each, and the pieces of the template, one element for each tag  *)
(* (or part of a tag up to an interpolation) and for each run of fixed     *)
(* words; the layout whitespace of the html templates is left out.         *)
(***************************************************************************)
\* html of mailOptions
mailOptionsHtml(formData) ==
    <<"<h2>", "(an inquiry has arrived)", "</h2>",
      "<table border cellpadding cellspacing style>",
      "<tr>", "<th style>", "(name)", "</th>", "<td>">>
    \o escapeHtml(Prop(formData, "name").v)
    \o <<"</td>", "</tr>", "<tr>", "<th style>", "(company)", "</th>", "<td>">>
    \o (IF Truthy(Prop(formData, "company"))
        THEN escapeHtml(Prop(formData, "company").v) ELSE <<"(not entered)">>)
    \o <<"</td>", "</tr>", "<tr>", "<th style>", "(email address)", "</th>", "<td>",
         "<a href=\"mailto:">>
    \o escapeHtml(Prop(formData, "email").v)
    \o <<"\">">>
    \o escapeHtml(Prop(formData, "email").v)
    \o <<"</a>", "</td>", "</tr>", "<tr>", "<th style>", "(phone)", "</th>", "<td>">>
    \o (IF Truthy(Prop(formData, "phone"))
        THEN escapeHtml(Prop(formData, "phone").v) ELSE <<"(not entered)">>)
    \o <<"</td>", "</tr>", "<tr>", "<th style>", "(inquiry)", "</th>",
         "<td style=pre-wrap>">>
    \o escapeHtml(Prop(formData, "message").v)
    \o <<"</td>", "</tr>", "</table>", "<p style>", "(sent from the inquiry form)", "</p>">>

\* variant: the text part leaves an absent optional field blank
mailOptionsTextBlank(formData) ==
    Trim(<<"\n", "(an inquiry has arrived)", "\n", "\n", "(name): ">>
         \o Prop(formData, "name").v
         \o <<"\n", "(company): ">>
         \o (IF Truthy(Prop(formData, "company"))
             THEN Prop(formData, "company").v ELSE <<>>)
         \o <<"\n", "(email address): ">>
         \o Prop(formData, "email").v
         \o <<"\n", "(phone): ">>
         \o (IF Truthy(Prop(formData, "phone"))
             THEN Prop(formData, "phone").v ELSE <<>>)
         \o <<"\n", "\n", "(inquiry):", "\n">>
         \o Prop(formData, "message").v
         \o <<"\n", " ">>)

\* text of mailOptions
mailOptionsText(formData) ==
    Trim(<<"\n", "(an inquiry has arrived)", "\n", "\n", "(name): ">>
         \o Prop(formData, "name").v
         \o <<"\n", "(company): ">>
         \o (IF Truthy(Prop(formData, "company"))
             THEN Prop(formData, "company").v ELSE <<"(not entered)">>)
         \o <<"\n", "(email address): ">>
         \o Prop(formData, "email").v
         \o <<"\n", "(phone): ">>
         \o (IF Truthy(Prop(formData, "phone"))
             THEN Prop(formData, "phone").v ELSE <<"(not entered)">>)
         \o <<"\n", "\n", "(inquiry):", "\n">>
         \o Prop(formData, "message").v
         \o <<"\n", " ">>)

\* const mailOptions = { from, to, replyTo, subject, html, text }
mailOptions(formData, gmailUser) ==
    [from    |-> Str(<<"\"", "(Smile Support inquiries)", "\"", " ", "<">>
                     \o TemplateText(gmailUser) \o <<">">>),
     to      |-> gmailUser,
     replyTo |-> Prop(formData, "email"),
     subject |-> Str(<<"[inquiry]">> \o Prop(formData, "name").v \o <<"(sama, from)">>),
     html    |-> Str(mailOptionsHtml(formData)),
     text    |-> Str(mailOptionsText(formData))]

\* html of autoReplyOptions
autoReplyOptionsHtml(formData) ==
    <<"<div style>", "<h2 style>", "(thank you for your inquiry)", "</h2>", "<p>">>
    \o escapeHtml(Prop(formData, "name").v)
    \o <<" ", "(sama)", "</p>",
         "<p>", "(thank you for contacting Smile Support)", "<br>",
         "(we have accepted the inquiry below)", "</p>",
         "<div style>", "<p style>", "<strong>", "(name):", "</strong>", " ">>
    \o escapeHtml(Prop(formData, "name").v)
    \o <<"</p>">>
    \o (IF Truthy(Prop(formData, "company"))
        THEN <<"<p style>", "<strong>", "(company):", "</strong>", " ">>
             \o escapeHtml(Prop(formData, "company").v) \o <<"</p>">>
        ELSE <<>>)
    \o <<"<p style>", "<strong>", "(email address):", "</strong>", " ">>
    \o escapeHtml(Prop(formData, "email").v)
    \o <<"</p>">>
    \o (IF Truthy(Prop(formData, "phone"))
        THEN <<"<p style>", "<strong>", "(phone):", "</strong>", " ">>
             \o escapeHtml(Prop(formData, "phone").v) \o <<"</p>">>
        ELSE <<>>)
    \o <<"<p style>", "<strong>", "(inquiry):", "</strong>", "</p>", "<p style=pre-wrap>">>
    \o escapeHtml(Prop(formData, "message").v)
    \o <<"</p>", "</div>",
         "<p>", "(we will contact you within)", "<strong>", "(2 business days)", "</strong>",
         "(so)", "<br>", "(please wait)", "</p>",
         "<hr style>", "<p style>", "(Smile Support)", "<br>", "(postal address)", "<br>",
         "<br>", "(this mail is sent automatically)", "<br>",
         "(delete it if it is not yours)", "</p>", "</div>">>

\* text of autoReplyOptions
autoReplyOptionsText(formData) ==
    Trim(<<"\n">>
         \o Prop(formData, "name").v
         \o <<" ", "(sama)", "\n", "\n", "(thank you for contacting Smile Support)", "\n",
              "(we have accepted the inquiry below)", "\n", "\n", "(rule)", "\n",
              "(name): ">>
         \o Prop(formData, "name").v
         \o <<"\n">>
         \o (IF Truthy(Prop(formData, "company"))
             THEN <<"(company): ">> \o Prop(formData, "company").v \o <<"\n">>
             ELSE <<>>)
         \o <<"(email address): ">>
         \o Prop(formData, "email").v
         \o <<"\n">>
         \o (IF Truthy(Prop(formData, "phone"))
             THEN <<"(phone): ">> \o Prop(formData, "phone").v \o <<"\n">>
             ELSE <<>>)
         \o <<"\n", "(inquiry):", "\n">>
         \o Prop(formData, "message").v
         \o <<"\n", "(rule)", "\n", "\n", "(we will contact you within 2 business days)", "\n",
              "(please wait)", "\n", "\n", "(thin rule)", "\n", "(Smile Support)", "\n",
              "(postal address)", "\n", "\n", "(this mail is sent automatically)", "\n",
              "(delete it if it is not yours)", "\n", " ">>)

\* the subject of the auto-reply
AutoReplySubject == Str(<<"[Smile Support] (we have accepted your inquiry)">>)

\* variant: the auto-reply goes to the operator
autoReplyOptionsToOperator(formData, gmailUser) ==
    [from    |-> Str(<<"\"", "(Smile Support)", "\"", " ", "<">> \o TemplateText(gmailUser) \o <<">">>),
     to      |-> gmailUser,
     subject |-> AutoReplySubject,
     html    |-> Str(autoReplyOptionsHtml(formData)),
     text    |-> Str(autoReplyOptionsText(formData))]

\* const autoReplyOptions = { from, to, subject, html, text }
autoReplyOptions(formData, gmailUser) ==
    [from    |-> Str(<<"\"", "(Smile Support)", "\"", " ", "<">> \o TemplateText(gmailUser) \o <<">">>),
     to      |-> Prop(formData, "email"),
     subject |-> AutoReplySubject,
     html    |-> Str(autoReplyOptionsHtml(formData)),
     text    |-> Str(autoReplyOptionsText(formData))]

\* building mailOptions throws when escapeHtml is handed a non-string
mailOptionsThrows(formData) ==
    \/ escapeHtmlThrows(Prop(formData, "name"))
    \/ Truthy(Prop(formData, "company")) /\ escapeHtmlThrows(Prop(formData, "company"))
    \/ escapeHtmlThrows(Prop(formData, "email"))
    \/ Truthy(Prop(formData, "phone")) /\ escapeHtmlThrows(Prop(formData, "phone"))
    \/ escapeHtmlThrows(Prop(formData, "message"))

\* building autoReplyOptions throws when escapeHtml is handed a non-string
autoReplyOptionsThrows(formData) ==
    \/ escapeHtmlThrows(Prop(formData, "name"))
    \/ Truthy(Prop(formData, "company")) /\ escapeHtmlThrows(Prop(formData, "company"))
    \/ escapeHtmlThrows(Prop(formData, "email"))
    \/ Truthy(Prop(formData, "phone")) /\ escapeHtmlThrows(Prop(formData, "phone"))
    \/ escapeHtmlThrows(Prop(formData, "message"))

sendContactEmailSuccess == [success |-> TRUE, message |-> LibMsgAccepted]

\* variant: the catch clause returns the text of the caught error
sendContactEmailCatchLeaks(error) == [success |-> FALSE, error |-> error]

\* the catch clause: the caught error is logged, not returned
sendContactEmailCatch(error) == [success |-> FALSE, error |-> LibErrSendFailed]

(***************************************************************************)
(* api/contact: handler                                                    *)
(***************************************************************************)
\* variant: if (req.method === "GET")
handlerMethodNotAllowedGetOnly(method) == method = "GET"

\* if (req.method !== "POST")
handlerMethodNotAllowed(method) == method # "POST"

\* variant: the token-presence gate is left out
handlerTokenMissingNever(body) == FALSE

\* if (!recaptchaToken): the token-presence gate fails
handlerTokenMissing(body) == ~Truthy(Prop(body, "recaptchaToken"))

\* variant: if (!gmailUser && !gmailAppPassword)
handlerCredentialsMissingBoth(e) == ~Truthy(e.GMAIL_USER) /\ ~Truthy(e.GMAIL_APP_PASSWORD)

\* if (!gmailUser || !gmailAppPassword)
handlerCredentialsMissing(e) == ~Truthy(e.GMAIL_USER) \/ ~Truthy(e.GMAIL_APP_PASSWORD)

\* the response written for a sendContactEmail result
\* variant: the failure branch answers 200 as well
handlerResultStatusAlwaysOk(result) == 200

handlerResultStatus(result) == IF result.success THEN 200 ELSE 500

handlerResultBody(result) ==
    IF result.success
    THEN [success |-> TRUE, message |-> result.message]
    ELSE [error |-> result.error]

handlerRespondResult(h, result) ==
    Respond(h, handlerResultStatus(result), handlerResultBody(result))

\* from entry to the first await (or to the response of a failed gate)
handlerEntry(h) ==
    /\ pc[h] = "start"
    /\ IF handlerMethodNotAllowed(Request(h).method)
       THEN /\ Respond(h, 405, [error |-> SlErrMethod])
            /\ UNCHANGED <<gates, vr, calls, sent, inflight>>
       ELSE IF ~validateContactForm(Request(h).body)
       THEN /\ Evaluated(h, <<"shape">>)
            /\ Respond(h, 400, [error |-> SlErrShape])
            /\ UNCHANGED <<vr, calls, sent, inflight>>
       ELSE IF ~validateSecurityAnswer(Prop(Request(h).body, "securityAnswer").v)
       THEN /\ Evaluated(h, <<"shape", "security">>)
            /\ Respond(h, 400, [error |-> SlErrSecurity])
            /\ UNCHANGED <<vr, calls, sent, inflight>>
       ELSE IF handlerTokenMissing(Request(h).body)
       THEN /\ Evaluated(h, <<"shape", "security", "token">>)
            /\ Respond(h, 400, [error |-> SlErrToken])
            /\ UNCHANGED <<vr, calls, sent, inflight>>
       ELSE /\ Evaluated(h, <<"shape", "security", "token", "recaptcha">>)
            /\ UNCHANGED responses
            /\ IF verifyRecaptchaSkips(env.RECAPTCHA_SECRET_KEY)
               THEN /\ vr' = [vr EXCEPT ![h] = Bool(TRUE)]
                    /\ pc' = [pc EXCEPT ![h] = "verified"]
                    /\ UNCHANGED <<calls, sent, inflight>>
               ELSE /\ Issue(h, CallVerify, "fetch")
                    /\ UNCHANGED sent
                    /\ UNCHANGED vr
    /\ UNCHANGED <<fn, page, env, req, req2, outcomes>>

\* variant: sendContactEmail issues both sends at once (Promise.all)
handlerVerifiedParallel(h) ==
    /\ pc[h] = "verified"
    /\ IF ~Truthy(vr[h])
       THEN /\ Respond(h, 400, [error |-> SlErrRecaptcha])
            /\ UNCHANGED <<gates, calls, sent, inflight>>
       ELSE /\ Evaluated(h, <<"email">>)
            /\ IF handlerCredentialsMissing(env)
               THEN /\ Respond(h, 500, [error |-> SlErrConfig])
                    /\ UNCHANGED <<calls, sent, inflight>>
               ELSE IF mailOptionsThrows(Request(h).body)
               THEN /\ handlerRespondResult(h, sendContactEmailCatch("TypeError"))
                    /\ UNCHANGED <<calls, sent, inflight>>
               ELSE /\ calls' = [calls EXCEPT ![h] = @ \o <<CallNotification, CallAutoReply>>]
                    /\ sent' = [sent EXCEPT ![h] =
                                   @ \o <<mailOptions(Request(h).body, env.GMAIL_USER),
                                          autoReplyOptions(Request(h).body, env.GMAIL_USER)>>]
                    /\ inflight' = [inflight EXCEPT ![h] = {CallNotification, CallAutoReply}]
                    /\ pc' = [pc EXCEPT ![h] = "notification"]
                    /\ UNCHANGED responses
    /\ UNCHANGED <<fn, page, env, req, req2, vr, outcomes>>

\* variant: the result of verifyRecaptcha is kept in a variable the requests share
handlerVerifiedShared(h) ==
    /\ pc[h] = "verified"
    /\ IF \E g \in ServerlessHandlers : pc[g] # "idle" /\ ~Truthy(vr[g])
       THEN /\ Respond(h, 400, [error |-> SlErrRecaptcha])
            /\ UNCHANGED <<gates, calls, sent, inflight>>
       ELSE /\ Evaluated(h, <<"email">>)
            /\ IF handlerCredentialsMissing(env)
               THEN /\ Respond(h, 500, [error |-> SlErrConfig])
                    /\ UNCHANGED <<calls, sent, inflight>>
               ELSE IF mailOptionsThrows(Request(h).body)
               THEN /\ handlerRespondResult(h, sendContactEmailCatch("TypeError"))
                    /\ UNCHANGED <<calls, sent, inflight>>
               ELSE /\ Issue(h, CallNotification, "notification")
                    /\ Sent(h, mailOptions(Request(h).body, env.GMAIL_USER))
                    /\ UNCHANGED responses
    /\ UNCHANGED <<fn, page, env, req, req2, vr, outcomes>>

\* from the return of verifyRecaptcha to the first sendMail (or to a response)
handlerVerified(h) ==
    /\ pc[h] = "verified"
    /\ IF ~Truthy(vr[h])
       THEN /\ Respond(h, 400, [error |-> SlErrRecaptcha])
            /\ UNCHANGED <<gates, calls, sent, inflight>>
       ELSE /\ Evaluated(h, <<"email">>)
            /\ IF handlerCredentialsMissing(env)
               THEN /\ Respond(h, 500, [error |-> SlErrConfig])
                    /\ UNCHANGED <<calls, sent, inflight>>
               ELSE IF mailOptionsThrows(Request(h).body)
               THEN /\ handlerRespondResult(h, sendContactEmailCatch("TypeError"))
                    /\ UNCHANGED <<calls, sent, inflight>>
               ELSE /\ Issue(h, CallNotification, "notification")
                    /\ Sent(h, mailOptions(Request(h).body, env.GMAIL_USER))
                    /\ UNCHANGED responses
    /\ UNCHANGED <<fn, page, env, req, req2, vr, outcomes>>

\* variant: the auto-reply is sent whatever became of the notification
handlerNotificationSettledContinues(h) ==
    /\ pc[h] = "notification"
    /\ \E o \in {Resolved} \cup Rejections :
        /\ Logged(h, "notification", o)
        /\ IF autoReplyOptionsThrows(Request(h).body)
           THEN /\ handlerRespondResult(h, sendContactEmailCatch("TypeError"))
                /\ inflight' = [inflight EXCEPT ![h] = @ \ {CallNotification}]
                /\ UNCHANGED <<calls, sent>>
           ELSE /\ calls' = [calls EXCEPT ![h] = Append(@, CallAutoReply)]
                /\ Sent(h, autoReplyOptions(Request(h).body, env.GMAIL_USER))
                /\ inflight' = [inflight EXCEPT ![h] = (@ \ {CallNotification}) \cup {CallAutoReply}]
                /\ pc' = [pc EXCEPT ![h] = "autoreply"]
                /\ UNCHANGED responses
    /\ UNCHANGED <<fn, page, env, req, req2, gates, vr>>

\* await transporter.sendMail(mailOptions) settles
handlerNotificationSettled(h) ==
    /\ pc[h] = "notification"
    /\ \E o \in {Resolved} \cup Rejections :
        /\ Logged(h, "notification", o)
        /\ IF awaitThrows(o)
           THEN /\ handlerRespondResult(h, sendContactEmailCatch(o.error))
                /\ inflight' = [inflight EXCEPT ![h] = @ \ {CallNotification}]
                /\ UNCHANGED <<calls, sent>>
           ELSE IF autoReplyOptionsThrows(Request(h).body)
           THEN /\ handlerRespondResult(h, sendContactEmailCatch("TypeError"))
                /\ inflight' = [inflight EXCEPT ![h] = @ \ {CallNotification}]
                /\ UNCHANGED <<calls, sent>>
           ELSE /\ calls' = [calls EXCEPT ![h] = Append(@, CallAutoReply)]
                /\ Sent(h, autoReplyOptions(Request(h).body, env.GMAIL_USER))
                /\ inflight' = [inflight EXCEPT ![h] = (@ \ {CallNotification}) \cup {CallAutoReply}]
                /\ pc' = [pc EXCEPT ![h] = "autoreply"]
                /\ UNCHANGED responses
    /\ UNCHANGED <<fn, page, env, req, req2, gates, vr>>

\* variant: a rejected auto-reply is sent once more
handlerAutoReplySettledRetry(h) ==
    /\ pc[h] = "autoreply"
    /\ \E o \in {Resolved} \cup Rejections :
        IF awaitThrows(o) /\ Len(SelectSeq(calls[h], LAMBDA c : c = CallAutoReply)) < 2
        THEN /\ Logged(h, "autoreply", o)
             /\ calls' = [calls EXCEPT ![h] = Append(@, CallAutoReply)]
             /\ Sent(h, autoReplyOptions(Request(h).body, env.GMAIL_USER))
             /\ UNCHANGED <<pc, inflight, responses>>
        ELSE /\ Settle(h, CallAutoReply, "autoreply", o)
             /\ handlerRespondResult(h,
                   IF awaitThrows(o)
                   THEN sendContactEmailCatch(o.error)
                   ELSE sendContactEmailSuccess)
             /\ UNCHANGED <<calls, sent>>
    /\ UNCHANGED <<fn, page, env, req, req2, gates, vr>>

\* await transporter.sendMail(autoReplyOptions) settles
handlerAutoReplySettled(h) ==
    /\ pc[h] = "autoreply"
    /\ \E o \in {Resolved} \cup Rejections :
        /\ Settle(h, CallAutoReply, "autoreply", o)
        /\ handlerRespondResult(h,
              IF awaitThrows(o)
              THEN sendContactEmailCatch(o.error)
              ELSE sendContactEmailSuccess)
    /\ UNCHANGED <<fn, page, env, req, req2, gates, vr, calls, sent>>

(***************************************************************************)
(* server/index: the Express deployment and its own copies of the helpers  *)
(***************************************************************************)
ExMsgAccepted == "Your inquiry has been received. We will contact you within 2 business days."

ExErrSendFailed == "Sending the mail failed. Please try again after a while."

ExErrShape == "Please fill in the required items (name, email address, inquiry, security answer)"

ExErrSecurity == "Please answer the security question correctly. (Hint: enter the name of the highest mountain in Japan in Japanese)"

ExErrToken == "Please complete the reCAPTCHA authentication."

ExErrRecaptcha == "The reCAPTCHA authentication failed. Please try again."

ExpressSecurityAnswerVariants ==
    << <<"U5BCC", "U58EB", "U5C71">>,
       <<"U3075", "U3058", "U3055", "U3093">>,
       <<"U30D5", "U30B8", "U30B5", "U30F3">>,
       <<"f", "u", "j", "i", "s", "a", "n">>,
       <<"m", "t", ".", "f", "u", "j", "i">>,
       <<"m", "t", "f", "u", "j", "i">>,
       <<"m", "o", "u", "n", "t", " ", "f", "u", "j", "i">> >>

\* variant: every answer is accepted
expressValidateSecurityAnswerAny(answer) == TRUE

expressValidateSecurityAnswer(answer) ==
    \E i \in 1..Len(ExpressSecurityAnswerVariants) :
        RemoveDots(RemoveWhiteSpace(ToLowerCase(Trim(answer))))
            = RemoveDots(RemoveWhiteSpace(ToLowerCase(ExpressSecurityAnswerVariants[i])))

\* variant: the securityAnswer conjunct is missing
expressValidateContactFormNoAnswer(data) ==
    IF TypeOf(data) # "object" \/ data = Null
    THEN FALSE
    ELSE /\ TypeOf(Prop(data, "name")) = "string"
         /\ Len(Trim(Prop(data, "name").v)) > 0
         /\ TypeOf(Prop(data, "email")) = "string"
         /\ Includes(Prop(data, "email").v, "@")
         /\ TypeOf(Prop(data, "message")) = "string"
         /\ Len(Trim(Prop(data, "message").v)) > 0

expressValidateContactForm(data) ==
    IF TypeOf(data) # "object" \/ data = Null
    THEN FALSE
    ELSE /\ TypeOf(Prop(data, "name")) = "string"
         /\ Len(Trim(Prop(data, "name").v)) > 0
         /\ TypeOf(Prop(data, "email")) = "string"
         /\ Includes(Prop(data, "email").v, "@")
         /\ TypeOf(Prop(data, "message")) = "string"
         /\ Len(Trim(Prop(data, "message").v)) > 0
         /\ TypeOf(Prop(data, "securityAnswer")) = "string"

\* verifyRecaptcha reads the secret from process.env: if (!secretKey) return true
expressVerifyRecaptchaSkips(e) == ~Truthy(e.RECAPTCHA_SECRET_KEY)

\* return data.success, or false from the catch clause when reading it throws
expressVerifyRecaptchaResult(data) ==
    IF data = Null THEN Bool(FALSE) ELSE Prop(data, "success")

\* variant: createMailTransporter without the check of the credentials
createMailTransporterThrowsNever(e) == FALSE

\* createMailTransporter throws when a credential is missing
createMailTransporterThrows(e) == ~Truthy(e.GMAIL_USER) \/ ~Truthy(e.GMAIL_APP_PASSWORD)

(***************************************************************************)
(* Express route: its own escapeHtml and its inline composition of the two *)
(* messages                                                                *)
(***************************************************************************)
\* const map: Record<string, string>
expressEscapeHtmlMap ==
    [c \in {"&", "<", ">", "\"", "'"} |->
        CASE c = "&"  -> <<"&", "a", "m", "p", ";">>
          [] c = "<"  -> <<"&", "l", "t", ";">>
          [] c = ">"  -> <<"&", "g", "t", ";">>
          [] c = "\"" -> <<"&", "q", "u", "o", "t", ";">>
          [] c = "'"  -> <<"&", "#", "0", "3", "9", ";">>]

\* variant: the text is interpolated as it is
expressEscapeHtmlNone(text) == text

\* escapeHtml of a string
expressEscapeHtml(text) == ReplaceEach(text, expressEscapeHtmlMap)

\* html of mailOptions
expressMailOptionsHtml(body) ==
    <<"<h2>", "(an inquiry has arrived)", "</h2>",
      "<table border cellpadding cellspacing style>",
      "<tr>", "<th style>", "(name)", "</th>", "<td>">>
    \o expressEscapeHtml(Prop(body, "name").v)
    \o <<"</td>", "</tr>", "<tr>", "<th style>", "(company)", "</th>", "<td>">>
    \o (IF Truthy(Prop(body, "company"))
        THEN expressEscapeHtml(Prop(body, "company").v) ELSE <<"(not entered)">>)
    \o <<"</td>", "</tr>", "<tr>", "<th style>", "(email address)", "</th>", "<td>",
         "<a href=\"mailto:">>
    \o expressEscapeHtml(Prop(body, "email").v)
    \o <<"\">">>
    \o expressEscapeHtml(Prop(body, "email").v)
    \o <<"</a>", "</td>", "</tr>", "<tr>", "<th style>", "(phone)", "</th>", "<td>">>
    \o (IF Truthy(Prop(body, "phone"))
        THEN expressEscapeHtml(Prop(body, "phone").v) ELSE <<"(not entered)">>)
    \o <<"</td>", "</tr>", "<tr>", "<th style>", "(inquiry)", "</th>",
         "<td style=pre-wrap>">>
    \o expressEscapeHtml(Prop(body, "message").v)
    \o <<"</td>", "</tr>", "</table>", "<p style>", "(sent from the inquiry form)", "</p>">>

\* text of mailOptions
expressMailOptionsText(body) ==
    Trim(<<"\n", "(an inquiry has arrived)", "\n", "\n", "(name): ">>
         \o Prop(body, "name").v
         \o <<"\n", "(company): ">>
         \o (IF Truthy(Prop(body, "company"))
             THEN Prop(body, "company").v ELSE <<"(not entered)">>)
         \o <<"\n", "(email address): ">>
         \o Prop(body, "email").v
         \o <<"\n", "(phone): ">>
         \o (IF Truthy(Prop(body, "phone"))
             THEN Prop(body, "phone").v ELSE <<"(not entered)">>)
         \o <<"\n", "\n", "(inquiry):", "\n">>
         \o Prop(body, "message").v
         \o <<"\n", " ">>)

\* const mailOptions = { from, to, replyTo, subject, html, text }
expressMailOptions(body, gmailUser) ==
    [from    |-> Str(<<"\"", "(Smile Support inquiries)", "\"", " ", "<">>
                     \o TemplateText(gmailUser) \o <<">">>),
     to      |-> gmailUser,
     replyTo |-> Prop(body, "email"),
     subject |-> Str(<<"[inquiry]">> \o Prop(body, "name").v \o <<"(sama, from)">>),
     html    |-> Str(expressMailOptionsHtml(body)),
     text    |-> Str(expressMailOptionsText(body))]

\* html of autoReplyOptions
expressAutoReplyOptionsHtml(body) ==
    <<"<div style>", "<h2 style>", "(thank you for your inquiry)", "</h2>", "<p>">>
    \o expressEscapeHtml(Prop(body, "name").v)
    \o <<" ", "(sama)", "</p>",
         "<p>", "(thank you for contacting Smile Support)", "<br>",
         "(we have accepted the inquiry below)", "</p>",
         "<div style>", "<p style>", "<strong>", "(name):", "</strong>", " ">>
    \o expressEscapeHtml(Prop(body, "name").v)
    \o <<"</p>">>
    \o (IF Truthy(Prop(body, "company"))
        THEN <<"<p style>", "<strong>", "(company):", "</strong>", " ">>
             \o expressEscapeHtml(Prop(body, "company").v) \o <<"</p>">>
        ELSE <<>>)
    \o <<"<p style>", "<strong>", "(email address):", "</strong>", " ">>
    \o expressEscapeHtml(Prop(body, "email").v)
    \o <<"</p>">>
    \o (IF Truthy(Prop(body, "phone"))
        THEN <<"<p style>", "<strong>", "(phone):", "</strong>", " ">>
             \o expressEscapeHtml(Prop(body, "phone").v) \o <<"</p>">>
        ELSE <<>>)
    \o <<"<p style>", "<strong>", "(inquiry):", "</strong>", "</p>", "<p style=pre-wrap>">>
    \o expressEscapeHtml(Prop(body, "message").v)
    \o <<"</p>", "</div>",
         "<p>", "(we will contact you within)", "<strong>", "(2 business days)", "</strong>",
         "(so)", "<br>", "(please wait)", "</p>",
         "<hr style>", "<p style>", "(Smile Support)", "<br>", "(postal address)", "<br>",
         "<br>", "(this mail is sent automatically)", "<br>",
         "(delete it if it is not yours)", "</p>", "</div>">>

\* text of autoReplyOptions
expressAutoReplyOptionsText(body) ==
    Trim(<<"\n">>
         \o Prop(body, "name").v
         \o <<" ", "(sama)", "\n", "\n", "(thank you for contacting Smile Support)", "\n",
              "(we have accepted the inquiry below)", "\n", "\n", "(rule)", "\n",
              "(name): ">>
         \o Prop(body, "name").v
         \o <<"\n">>
         \o (IF Truthy(Prop(body, "company"))
             THEN <<"(company): ">> \o Prop(body, "company").v \o <<"\n">>
             ELSE <<>>)
         \o <<"(email address): ">>
         \o Prop(body, "email").v
         \o <<"\n">>
         \o (IF Truthy(Prop(body, "phone"))
             THEN <<"(phone): ">> \o Prop(body, "phone").v \o <<"\n">>
             ELSE <<>>)
         \o <<"\n", "(inquiry):", "\n">>
         \o Prop(body, "message").v
         \o <<"\n", "(rule)", "\n", "\n", "(we will contact you within 2 business days)", "\n",
              "(please wait)", "\n", "\n", "(thin rule)", "\n", "(Smile Support)", "\n",
              "(postal address)", "\n", "\n", "(this mail is sent automatically)", "\n",
              "(delete it if it is not yours)", "\n", " ">>)

\* the subject of the auto-reply
ExpressAutoReplySubject == Str(<<"[Smile Support] (we have accepted your inquiry)">>)

\* const autoReplyOptions = { from, to, subject, html, text }
expressAutoReplyOptions(body, gmailUser) ==
    [from    |-> Str(<<"\"", "(Smile Support)", "\"", " ", "<">> \o TemplateText(gmailUser) \o <<">">>),
     to      |-> Prop(body, "email"),
     subject |-> ExpressAutoReplySubject,
     html    |-> Str(expressAutoReplyOptionsHtml(body)),
     text    |-> Str(expressAutoReplyOptionsText(body))]

\* building the route's mailOptions throws when escapeHtml is handed a non-string
expressMailOptionsThrows(body) ==
    \/ escapeHtmlThrows(Prop(body, "name"))
    \/ Truthy(Prop(body, "company")) /\ escapeHtmlThrows(Prop(body, "company"))
    \/ escapeHtmlThrows(Prop(body, "email"))
    \/ Truthy(Prop(body, "phone")) /\ escapeHtmlThrows(Prop(body, "phone"))
    \/ escapeHtmlThrows(Prop(body, "message"))

expressAutoReplyOptionsThrows(body) ==
    \/ escapeHtmlThrows(Prop(body, "name"))
    \/ Truthy(Prop(body, "company")) /\ escapeHtmlThrows(Prop(body, "company"))
    \/ escapeHtmlThrows(Prop(body, "email"))
    \/ Truthy(Prop(body, "phone")) /\ escapeHtmlThrows(Prop(body, "phone"))
    \/ escapeHtmlThrows(Prop(body, "message"))

\* variant: if (recaptchaToken === undefined)
expressTokenMissingUndefinedOnly(body) == Prop(body, "recaptchaToken") = Undefined

\* if (!recaptchaToken)
expressTokenMissing(body) == ~Truthy(Prop(body, "recaptchaToken"))

\* the route's catch clause: the caught error is logged, not returned
expressCatchBody(error) == [success |-> FALSE, error |-> ExErrSendFailed]

\* the body of the route's 400 responses
expressRejectBody(message) == [success |-> FALSE, error |-> message]

\* app.post("/api/contact"): from entry to the first await (or to a response)
expressEntry(h) ==
    /\ pc[h] = "start"
    /\ Request(h).method = "POST"
    /\ IF ~expressValidateContactForm(Request(h).body)
       THEN /\ Evaluated(h, <<"shape">>)
            /\ Respond(h, 400, expressRejectBody(ExErrShape))
            /\ UNCHANGED <<vr, calls, sent, inflight>>
       ELSE IF ~expressValidateSecurityAnswer(Prop(Request(h).body, "securityAnswer").v)
       THEN /\ Evaluated(h, <<"shape", "security">>)
            /\ Respond(h, 400, expressRejectBody(ExErrSecurity))
            /\ UNCHANGED <<vr, calls, sent, inflight>>
       ELSE IF expressTokenMissing(Request(h).body)
       THEN /\ Evaluated(h, <<"shape", "security", "token">>)
            /\ Respond(h, 400, expressRejectBody(ExErrToken))
            /\ UNCHANGED <<vr, calls, sent, inflight>>
       ELSE /\ Evaluated(h, <<"shape", "security", "token", "recaptcha">>)
            /\ UNCHANGED responses
            /\ IF expressVerifyRecaptchaSkips(env)
               THEN /\ vr' = [vr EXCEPT ![h] = Bool(TRUE)]
                    /\ pc' = [pc EXCEPT ![h] = "verified"]
                    /\ UNCHANGED <<calls, sent, inflight>>
               ELSE /\ Issue(h, CallVerify, "fetch")
                    /\ UNCHANGED sent
                    /\ UNCHANGED vr
    /\ UNCHANGED <<fn, page, env, req, req2, outcomes>>

\* verifyRecaptcha: the awaited fetch settles
expressFetched(h) ==
    /\ pc[h] = "fetch"
    /\ \E o \in {Resolved} \cup Rejections :
        /\ Logged(h, "fetch", o)
        /\ IF awaitThrows(o)
           THEN /\ vr' = [vr EXCEPT ![h] = Bool(FALSE)]
                /\ inflight' = [inflight EXCEPT ![h] = @ \ {CallVerify}]
                /\ pc' = [pc EXCEPT ![h] = "verified"]
           ELSE /\ pc' = [pc EXCEPT ![h] = "json"]
                /\ UNCHANGED <<vr, inflight>>
    /\ UNCHANGED <<fn, page, env, req, req2, gates, calls, sent, responses>>

\* verifyRecaptcha: the awaited response.json() settles
expressParsed(h) ==
    /\ pc[h] = "json"
    /\ \E o \in JsonOutcomes :
        /\ Settle(h, CallVerify, "json", o)
        /\ vr' = [vr EXCEPT ![h] =
                    IF awaitThrows(o)
                    THEN Bool(FALSE)
                    ELSE expressVerifyRecaptchaResult(o.data)]
    /\ pc' = [pc EXCEPT ![h] = "verified"]
    /\ UNCHANGED <<fn, page, env, req, req2, gates, calls, sent, responses>>

\* from the return of verifyRecaptcha to the first sendMail (or to a response)
expressVerified(h) ==
    /\ pc[h] = "verified"
    /\ IF ~Truthy(vr[h])
       THEN /\ Respond(h, 400, expressRejectBody(ExErrRecaptcha))
            /\ UNCHANGED <<gates, calls, sent, inflight>>
       ELSE /\ Evaluated(h, <<"email">>)
            /\ IF createMailTransporterThrows(env)
               THEN /\ Respond(h, 500, expressCatchBody("Error"))
                    /\ UNCHANGED <<calls, sent, inflight>>
               ELSE IF expressMailOptionsThrows(Request(h).body)
               THEN /\ Respond(h, 500, expressCatchBody("TypeError"))
                    /\ UNCHANGED <<calls, sent, inflight>>
               ELSE /\ Issue(h, CallNotification, "notification")
                    /\ Sent(h, expressMailOptions(Request(h).body, env.GMAIL_USER))
                    /\ UNCHANGED responses
    /\ UNCHANGED <<fn, page, env, req, req2, vr, outcomes>>

\* await transporter.sendMail(mailOptions) settles
expressNotificationSettled(h) ==
    /\ pc[h] = "notification"
    /\ \E o \in {Resolved} \cup Rejections :
        /\ Logged(h, "notification", o)
        /\ IF awaitThrows(o)
           THEN /\ Respond(h, 500, expressCatchBody(o.error))
                /\ inflight' = [inflight EXCEPT ![h] = @ \ {CallNotification}]
                /\ UNCHANGED <<calls, sent>>
           ELSE IF expressAutoReplyOptionsThrows(Request(h).body)
           THEN /\ Respond(h, 500, expressCatchBody("TypeError"))
                /\ inflight' = [inflight EXCEPT ![h] = @ \ {CallNotification}]
                /\ UNCHANGED <<calls, sent>>
           ELSE /\ calls' = [calls EXCEPT ![h] = Append(@, CallAutoReply)]
                /\ Sent(h, expressAutoReplyOptions(Request(h).body, env.GMAIL_USER))
                /\ inflight' = [inflight EXCEPT ![h] = (@ \ {CallNotification}) \cup {CallAutoReply}]
                /\ pc' = [pc EXCEPT ![h] = "autoreply"]
                /\ UNCHANGED responses
    /\ UNCHANGED <<fn, page, env, req, req2, gates, vr>>

\* await transporter.sendMail(autoReplyOptions) settles
expressAutoReplySettled(h) ==
    /\ pc[h] = "autoreply"
    /\ \E o \in {Resolved} \cup Rejections :
        /\ Settle(h, CallAutoReply, "autoreply", o)
        /\ IF awaitThrows(o)
           THEN Respond(h, 500, expressCatchBody(o.error))
           ELSE Respond(h, 200, [success |-> TRUE, message |-> ExMsgAccepted])
    /\ UNCHANGED <<fn, page, env, req, req2, gates, vr, calls, sent>>

Next ==
    \/ \E h \in ServerlessHandlers : handlerEntry(h)
    \/ \E h \in ServerlessHandlers : verifyRecaptchaFetched(h)
    \/ \E h \in ServerlessHandlers : verifyRecaptchaParsed(h)
    \/ \E h \in ServerlessHandlers : handlerVerified(h)
    \/ \E h \in ServerlessHandlers : handlerNotificationSettled(h)
    \/ \E h \in ServerlessHandlers : handlerAutoReplySettled(h)
    \/ \E h \in ExpressHandlers : expressEntry(h)
    \/ \E h \in ExpressHandlers : expressFetched(h)
    \/ \E h \in ExpressHandlers : expressParsed(h)
    \/ \E h \in ExpressHandlers : expressVerified(h)
    \/ \E h \in ExpressHandlers : expressNotificationSettled(h)
    \/ \E h \in ExpressHandlers : expressAutoReplySettled(h)

Spec == Init /\ [][Next]_vars

\* the steps of one instance
HandlerStep(h) ==
    \/ h \in ServerlessHandlers /\ handlerEntry(h)
    \/ h \in ServerlessHandlers /\ verifyRecaptchaFetched(h)
    \/ h \in ServerlessHandlers /\ verifyRecaptchaParsed(h)
    \/ h \in ServerlessHandlers /\ handlerVerified(h)
    \/ h \in ServerlessHandlers /\ handlerNotificationSettled(h)
    \/ h \in ServerlessHandlers /\ handlerAutoReplySettled(h)
    \/ h \in ExpressHandlers /\ expressEntry(h)
    \/ h \in ExpressHandlers /\ expressFetched(h)
    \/ h \in ExpressHandlers /\ expressParsed(h)
    \/ h \in ExpressHandlers /\ expressVerified(h)
    \/ h \in ExpressHandlers /\ expressNotificationSettled(h)
    \/ h \in ExpressHandlers /\ expressAutoReplySettled(h)

\* the runtime calls the handler, every awaited call settles, and the
\* continuation of a settled await is run
Fairness == \A h \in Handlers : WF_vars(HandlerStep(h))


(***************************************************************************)
(* Submissions that reach the mail sends, with markup in their fields      *)
(***************************************************************************)
TextScript == <<"<", "s", "c", "r", "i", "p", "t", ">">>

MailBodies ==
    { [t |-> "object",
       f |-> [name |-> n, company |-> c, email |-> e, phone |-> p,
              message |-> m, securityAnswer |-> Str(TextMtFuji),
              recaptchaToken |-> Str(<<"t", "o", "k">>)]] :
        n \in {Str(TextTaro), Str(TextScript)},
        c \in {Undefined, Str(<<>>), Str(TextScript), Num(5)},
        e \in {Str(<<"a", "@", "b">>), Str(TextScript \o <<"@", "'">>)},
        p \in {Undefined, Str(<<"\"">> \o TextScript)},
        m \in {Str(<<"h", "i">>), Str(<<"a", "&">> \o TextScript)} }

InitMail ==
    /\ env \in [RECAPTCHA_SECRET_KEY : {Undefined, Str(<<"k", "e", "y">>)},
                GMAIL_USER : {Str(<<"o", "p", "@", "g">>)},
                GMAIL_APP_PASSWORD : {Str(<<"p", "w">>)}]
    /\ req \in [method : {"POST"}, body : MailBodies]
    /\ req2 = NoRequest
    /\ pc = [h \in Handlers |-> IF h \in Instances THEN "start" ELSE "idle"]
    /\ gates = [h \in Handlers |-> <<>>]
    /\ vr = [h \in Handlers |-> Undefined]
    /\ calls = [h \in Handlers |-> <<>>]
    /\ sent = [h \in Handlers |-> <<>>]
    /\ inflight = [h \in Handlers |-> {}]
    /\ outcomes = [h \in Handlers |-> <<>>]
    /\ responses = [h \in Handlers |-> <<>>]
    /\ fn = FnIdle
    /\ page = PageInit

SpecMail == InitMail /\ [][Next]_vars

(***************************************************************************)
(* Two requests handled at the same time by one deployment                 *)
(***************************************************************************)
IsoBodies ==
    { Undefined } \cup
    { [t |-> "object",
       f |-> [name |-> Str(TextTaro), company |-> c, email |-> Str(<<"a", "@", "b">>),
              message |-> Str(<<"h", "i">>), securityAnswer |-> a,
              recaptchaToken |-> Str(<<"t", "o", "k">>)]] :
        c \in {Undefined, Num(5)},
        a \in {Str(TextMtFuji), Str(<<"a", "s", "o">>)} }

InitIso ==
    /\ env \in [RECAPTCHA_SECRET_KEY : {Undefined, Str(<<"k", "e", "y">>)},
                GMAIL_USER : {Str(<<"o", "p", "@", "g">>)},
                GMAIL_APP_PASSWORD : {Str(<<"p", "w">>)}]
    /\ req \in [method : {"POST"}, body : IsoBodies]
    /\ req2 \in [method : {"POST"}, body : IsoBodies]
    /\ \E deployment \in {ServerlessHandlers, ExpressHandlers} :
          pc = [h \in Handlers |-> IF h \in deployment THEN "start" ELSE "idle"]
    /\ gates = [h \in Handlers |-> <<>>]
    /\ vr = [h \in Handlers |-> Undefined]
    /\ calls = [h \in Handlers |-> <<>>]
    /\ sent = [h \in Handlers |-> <<>>]
    /\ inflight = [h \in Handlers |-> {}]
    /\ outcomes = [h \in Handlers |-> <<>>]
    /\ responses = [h \in Handlers |-> <<>>]
    /\ fn = FnIdle
    /\ page = PageInit

SpecIso == InitIso /\ [][Next]_vars

(***************************************************************************)
(* One request through either deployment, every awaited call settling     *)
(***************************************************************************)
InitFair ==
    /\ env \in [RECAPTCHA_SECRET_KEY : {Undefined, Str(<<"k", "e", "y">>)},
                GMAIL_USER : UserValues,
                GMAIL_APP_PASSWORD : {Str(<<"p", "w">>)}]
    /\ req \in [method : {"POST", "GET"}, body : IsoBodies]
    /\ req2 = NoRequest
    /\ \E deployed \in Instances :
          pc = [h \in Handlers |-> IF h = deployed THEN "start" ELSE "idle"]
    /\ gates = [h \in Handlers |-> <<>>]
    /\ vr = [h \in Handlers |-> Undefined]
    /\ calls = [h \in Handlers |-> <<>>]
    /\ sent = [h \in Handlers |-> <<>>]
    /\ inflight = [h \in Handlers |-> {}]
    /\ outcomes = [h \in Handlers |-> <<>>]
    /\ responses = [h \in Handlers |-> <<>>]
    /\ fn = FnIdle
    /\ page = PageInit

SpecFair == InitFair /\ [][Next]_vars /\ Fairness

(***************************************************************************)
(* Direct calls of the exported functions (as the unit tests make them)    *)
(***************************************************************************)
\* no request is being handled
HandlerIdle ==
    /\ env = [RECAPTCHA_SECRET_KEY |-> Undefined,
              GMAIL_USER |-> Undefined,
              GMAIL_APP_PASSWORD |-> Undefined]
    /\ req = [method |-> "GET", body |-> Undefined]
    /\ req2 = NoRequest
    /\ pc = [h \in Handlers |-> "idle"]
    /\ gates = [h \in Handlers |-> <<>>]
    /\ vr = [h \in Handlers |-> Undefined]
    /\ calls = [h \in Handlers |-> <<>>]
    /\ sent = [h \in Handlers |-> <<>>]
    /\ inflight = [h \in Handlers |-> {}]
    /\ outcomes = [h \in Handlers |-> <<>>]
    /\ responses = [h \in Handlers |-> <<>>]

Called(f, a) == [f |-> f, arg |-> a, st |-> "called", ret |-> Undefined]

\* the function returns value r
Return(r) == fn' = [fn EXCEPT !.st = "returned", !.ret = r]

FormKeys == {"name", "company", "email", "phone", "message", "securityAnswer", "recaptchaToken"}

\* an object literal: a property whose value is undefined is left out
ObjectOf(o) == [t |-> "object", f |-> [k \in {j \in FormKeys : o[j] # Undefined} |-> o[k]]]

FormNameInputs ==
    {Undefined, Null, Num(1), Str(<<>>), Str(<<" ", "\t">>), Str(<<"U3000">>),
     Str(TextTaro), Str(<<" ", "a", " ">>)}

FormEmailInputs ==
    {Undefined, Num(1), Str(<<>>), Str(<<"a", "b">>), Str(<<"@">>), Str(<<"a", "@", "b">>)}

FormMessageInputs == {Undefined, Num(1), Str(<<>>), Str(<<"\n", " ">>), Str(<<"h", "i">>)}

FormAnswerInputs == {Undefined, Null, Num(1), Str(<<>>), Str(<<" ">>), Str(<<"a", "s", "o">>)}

FormCompanyInputs == {Undefined, Num(5), Str(<<"c", "o">>)}

FormPhoneInputs == {Undefined, Num(5)}

FormTokenInputs == {Undefined, Str(<<"t", "o", "k">>)}

FormInputs ==
    {Undefined, Null, Str(TextTaro), Num(0), Bool(TRUE)} \cup
    { ObjectOf([name |-> n, company |-> c, email |-> e, phone |-> p,
                message |-> m, securityAnswer |-> a, recaptchaToken |-> k]) :
        n \in FormNameInputs, c \in FormCompanyInputs, e \in FormEmailInputs,
        p \in FormPhoneInputs, m \in FormMessageInputs, a \in FormAnswerInputs,
        k \in FormTokenInputs }

\* expect(validateContactForm(data))
callValidateContactForm ==
    /\ fn.st = "called"
    /\ fn.f = "validateContactForm"
    /\ Return(Bool(validateContactForm(fn.arg)))
    /\ UNCHANGED <<handlerVars, page>>

\* the Express deployment's copy
callExpressValidateContactForm ==
    /\ fn.st = "called"
    /\ fn.f = "expressValidateContactForm"
    /\ Return(Bool(expressValidateContactForm(fn.arg)))
    /\ UNCHANGED <<handlerVars, page>>

\* the largest number of changes made to a spelling
MaxEdits == 1

\* spellings the answers are derived from: the accepted ones and others
AnswerBases ==
    { SECURITY_ANSWER_VARIANTS[i] : i \in 1..Len(SECURITY_ANSWER_VARIANTS) } \cup
    { <<>>, <<"f", "u", "j", "i">>, <<"a", "s", "o">>, <<"U5BCC", "U58EB">>,
      <<"m", "t", ".", "f", "u", "j", "i", "i">> } \cup
    { TextMtFuji, <<"M", "O", "U", "N", "T", " ", "F", "U", "J", "I">>,
      <<" ", " ", "U5BCC", "U58EB", "U5C71", " ", " ">>, <<" ", ".">> }

UpperChar(c) ==
    IF \E i \in 1..Len(LowerCase) : LowerCase[i] = c
    THEN UpperCase[CHOOSE i \in 1..Len(LowerCase) : LowerCase[i] = c]
    ELSE c

InsertAt(t, p, c) == SubSeq(t, 1, p) \o <<c>> \o SubSeq(t, p + 1, Len(t))

\* t with one space, full-width space or dot inserted, or one letter in upper case
Decorations(t) ==
    { InsertAt(t, p, c) : p \in 0..Len(t), c \in {" ", "U3000", "."} } \cup
    { [t EXCEPT ![p] = UpperChar(t[p])] : p \in 1..Len(t) }

AnswerCalls ==
    { [f |-> "validateSecurityAnswer", arg |-> Str(b), st |-> "composing",
       ret |-> Undefined, base |-> b, edits |-> 0] : b \in AnswerBases }

\* the caller changes the spelling of the answer it is about to pass
decorateAnswer ==
    /\ fn.st = "composing"
    /\ fn.edits < MaxEdits
    /\ \E t \in Decorations(fn.arg.v) :
           fn' = [fn EXCEPT !.arg = Str(t), !.edits = @ + 1]
    /\ UNCHANGED <<handlerVars, page>>

\* expect(validateSecurityAnswer(answer))
callValidateSecurityAnswer ==
    /\ fn.st = "composing"
    /\ fn.f = "validateSecurityAnswer"
    /\ Return(Bool(validateSecurityAnswer(fn.arg.v)))
    /\ UNCHANGED <<handlerVars, page>>

\* the longest text handed to escapeHtml
MaxLen == 4

EscapeAlphabet == {"&", "<", ">", "\"", "'", "a"}

\* texts that already hold an entity, and the tag of the tests
EscapeSamples ==
    { <<"&", "l", "t", ";">>,
      <<"&", "a", "m", "p", ";">>,
      <<"&", "#", "0", "3", "9", ";">>,
      <<"<", "s", "c", "r", "i", "p", "t", ">">> }

EscapeInputs == EscapeSamples \cup UNION { [1..n -> EscapeAlphabet] : n \in 0..MaxLen }

\* expect(escapeHtml(text))
callEscapeHtml ==
    /\ fn.st = "called"
    /\ fn.f = "escapeHtml"
    /\ Return(Str(escapeHtml(fn.arg.v)))
    /\ UNCHANGED <<handlerVars, page>>

\* the Express server's copy of escapeHtml, called with the same texts
callExpressEscapeHtml ==
    /\ fn.st = "called"
    /\ fn.f = "expressEscapeHtml"
    /\ Return(Str(expressEscapeHtml(fn.arg.v)))
    /\ UNCHANGED <<handlerVars, page>>

InitFn ==
    /\ HandlerIdle
    /\ fn \in { Called(f, a) :
                  f \in {"validateContactForm", "expressValidateContactForm"},
                  a \in FormInputs }
              \cup AnswerCalls
              \cup { Called(f, Str(t)) :
                        f \in {"escapeHtml", "expressEscapeHtml"}, t \in EscapeInputs }
    /\ page = PageInit

NextFn ==
    \/ callValidateContactForm
    \/ callExpressValidateContactForm
    \/ decorateAnswer
    \/ callValidateSecurityAnswer
    \/ callEscapeHtml
    \/ callExpressEscapeHtml

SpecFn == InitFn /\ [][NextFn]_vars

(***************************************************************************)
(* client/src/pages/Home.tsx: the contact form of the page                 *)
(*                                                                         *)
(* page.formData, page.isSubmitting and page.recaptchaToken are the React  *)
(* state; page.rendered holds the values of the render whose handlers are  *)
(* attached, which are the values handleSubmit and the onChange handlers   *)
(* read.  A setter called inside an event handler is committed before the  *)
(* next event; setters called after an await, or by the reCAPTCHA widget,  *)
(* are committed by a later render.                                        *)
(***************************************************************************)
MaxTokens == 2

MaxPosts == 3

MaxFilled == 1

\* the fields of the form that hold text
Filled(formData) == { k \in FormFields : formData[k] # Str(<<>>) }

\* what the user types into a field
TypedValues == {Str(<<>>), Str(<<"a">>)}

\* the n-th token the reCAPTCHA widget issues
Token(n) == Str(<<"t", "o", "k">> \o NumberText(n))

PgToastRecaptcha == "Please complete the reCAPTCHA authentication."

PgToastAccepted == "Your inquiry has been received. We will contact you within 2 business days."

PgToastFailed == "Sending failed. Please try again after a while."

PgToastNetwork == "A communication error occurred. Please check your internet connection."

\* the JSON bodies the two handlers answer with, and the JSON value null
PageResponses ==
    { [success |-> TRUE, message |-> LibMsgAccepted],
      [success |-> FALSE, error |-> ExErrRecaptcha],
      [success |-> FALSE, error |-> ExErrSendFailed],
      [error |-> SlErrRecaptcha],
      [error |-> SlErrMethod],
      Null }

\* how the page's awaited fetch and response.json() settle
PageFetchOutcomes == {Resolved} \cup { [result |-> "rejected", error |-> "Network error"] }

PageJsonOutcomes ==
    { [result |-> "resolved", data |-> d] : d \in PageResponses }
    \cup { [result |-> "rejected", error |-> "SyntaxError"] }

\* data.success throws on null
dataSuccessThrows(data) == data = Null

\* if (data.success)
dataSuccess(data) == "success" \in DOMAIN data /\ data.success

\* data.message || "..."
dataMessage(data) == IF "message" \in DOMAIN data THEN data.message ELSE PgToastAccepted

\* data.error || "..."
dataError(data) == IF "error" \in DOMAIN data THEN data.error ELSE PgToastFailed

\* the renders React may commit at the end of an event handler that has set
\* the state values named in set: those values at least, or all pending ones
Commits(p, set) ==
    { [p EXCEPT !.rendered = r] :
        r \in { [k \in {"formData", "isSubmitting", "recaptchaToken"} |->
                    IF k \in set THEN ReactState(p)[k] ELSE p.rendered[k]],
                ReactState(p) } }

\* React commits the pending state updates
render ==
    /\ page.rendered # ReactState(page)
    /\ page' = [page EXCEPT !.rendered = ReactState(page), !.last = [ev |-> "render"]]
    /\ UNCHANGED <<handlerVars, fn>>

\* onChange={(e) => setFormData({ ...formData, k: e.target.value })}
inputOnChange ==
    /\ \E k \in FormFields, v \in TypedValues :
          /\ Cardinality(Filled([page.rendered.formData EXCEPT ![k] = v])) <= MaxFilled
          /\ page' \in Commits([page EXCEPT !.formData = [page.rendered.formData EXCEPT ![k] = v],
                                            !.last = [ev |-> "input"]],
                               {"formData"})
    /\ UNCHANGED <<handlerVars, fn>>

\* ReCAPTCHA onChange={(token) => setRecaptchaToken(token)}: the user has passed
\* the challenge and the widget hands over a token it has not issued before
recaptchaOnChange ==
    /\ page.widget = "unchecked"
    /\ page.issued < MaxTokens
    /\ page' = [page EXCEPT !.recaptchaToken = Token(page.issued + 1),
                            !.issued = @ + 1,
                            !.widget = "checked",
                            !.last = [ev |-> "token"]]
    /\ UNCHANGED <<handlerVars, fn>>

\* ReCAPTCHA onExpired={() => setRecaptchaToken(null)}
recaptchaOnExpired ==
    /\ page.widget = "checked"
    /\ page' = [page EXCEPT !.recaptchaToken = Null,
                            !.widget = "unchecked",
                            !.last = [ev |-> "expired"]]
    /\ UNCHANGED <<handlerVars, fn>>

\* ReCAPTCHA onError={() => setRecaptchaToken(null)}
recaptchaOnError ==
    /\ page' = [page EXCEPT !.recaptchaToken = Null,
                            !.widget = "unchecked",
                            !.last = [ev |-> "widget error"]]
    /\ UNCHANGED <<handlerVars, fn>>

\* variant: handleSubmit without `if (isSubmitting) return;`
handleSubmitNoGuard ==
    /\ IF ~Truthy(page.rendered.recaptchaToken)
       THEN page' = [page EXCEPT !.toast = [kind |-> "error", text |-> PgToastRecaptcha],
                                 !.last = [ev |-> "submit refused: no token"]]
       ELSE /\ Len(page.posted) < MaxPosts
            /\ page' \in Commits(
                    [page EXCEPT
                        !.isSubmitting = TRUE,
                        !.flights = Append(@, [recaptchaToken |-> page.rendered.recaptchaToken,
                                               at |-> "fetch"]),
                        !.posted = Append(@, page.rendered.recaptchaToken),
                        !.last = [ev |-> "posted"]],
                    {"isSubmitting"})
    /\ UNCHANGED <<handlerVars, fn>>

\* handleSubmit, from the submit event to its first await (or to its return)
handleSubmit ==
    /\ IF page.rendered.isSubmitting
       THEN page' = [page EXCEPT !.last = [ev |-> "submit refused: in flight"]]
       ELSE IF ~Truthy(page.rendered.recaptchaToken)
       THEN page' = [page EXCEPT !.toast = [kind |-> "error", text |-> PgToastRecaptcha],
                                 !.last = [ev |-> "submit refused: no token"]]
       ELSE /\ Len(page.posted) < MaxPosts
            /\ page' \in Commits(
                    [page EXCEPT
                        !.isSubmitting = TRUE,
                        !.flights = Append(@, [recaptchaToken |-> page.rendered.recaptchaToken,
                                               at |-> "fetch"]),
                        !.posted = Append(@, page.rendered.recaptchaToken),
                        !.last = [ev |-> "posted"]],
                    {"isSubmitting"})
    /\ UNCHANGED <<handlerVars, fn>>

\* s without its i-th element
Without(s, i) == SubSeq(s, 1, i - 1) \o SubSeq(s, i + 1, Len(s))

\* variant: the catch clause empties the form as well
handleSubmitCatchClears(p, i) ==
    [p EXCEPT !.toast = [kind |-> "error", text |-> PgToastNetwork],
              !.formData = EmptyForm,
              !.recaptchaToken = Null,
              !.widget = "unchecked",
              !.isSubmitting = FALSE,
              !.flights = Without(@, i),
              !.last = [ev |-> "attempt threw"]]

\* catch { toast.error(...); setRecaptchaToken(null); reset() } finally { setIsSubmitting(false) }
handleSubmitCatch(p, i) ==
    [p EXCEPT !.toast = [kind |-> "error", text |-> PgToastNetwork],
              !.recaptchaToken = Null,
              !.widget = "unchecked",
              !.isSubmitting = FALSE,
              !.flights = Without(@, i),
              !.last = [ev |-> "attempt threw"]]

\* variant: the failure branch keeps the token for the next attempt
handleSubmitAnsweredKeepsToken(p, i, data) ==
    IF dataSuccess(data)
    THEN [p EXCEPT !.toast = [kind |-> "success", text |-> dataMessage(data)],
                   !.formData = EmptyForm,
                   !.recaptchaToken = Null,
                   !.widget = "unchecked",
                   !.isSubmitting = FALSE,
                   !.flights = Without(@, i),
                   !.last = [ev |-> "attempt answered", data |-> data]]
    ELSE [p EXCEPT !.toast = [kind |-> "error", text |-> dataError(data)],
                   !.isSubmitting = FALSE,
                   !.flights = Without(@, i),
                   !.last = [ev |-> "attempt answered", data |-> data]]

\* if (data.success) { ... } else { ... } finally { setIsSubmitting(false) }
handleSubmitAnswered(p, i, data) ==
    IF dataSuccess(data)
    THEN [p EXCEPT !.toast = [kind |-> "success", text |-> dataMessage(data)],
                   !.formData = EmptyForm,
                   !.recaptchaToken = Null,
                   !.widget = "unchecked",
                   !.isSubmitting = FALSE,
                   !.flights = Without(@, i),
                   !.last = [ev |-> "attempt answered", data |-> data]]
    ELSE [p EXCEPT !.toast = [kind |-> "error", text |-> dataError(data)],
                   !.recaptchaToken = Null,
                   !.widget = "unchecked",
                   !.isSubmitting = FALSE,
                   !.flights = Without(@, i),
                   !.last = [ev |-> "attempt answered", data |-> data]]

\* await fetch("/api/contact", ...) settles
pageFetchSettled ==
    /\ \E i \in 1..Len(page.flights), o \in PageFetchOutcomes :
          /\ page.flights[i].at = "fetch"
          /\ page' = IF awaitThrows(o)
                     THEN handleSubmitCatch(page, i)
                     ELSE [page EXCEPT !.flights[i].at = "json",
                                       !.last = [ev |-> "fetched"]]
    /\ UNCHANGED <<handlerVars, fn>>

\* await response.json() settles
pageJsonSettled ==
    /\ \E i \in 1..Len(page.flights), o \in PageJsonOutcomes :
          /\ page.flights[i].at = "json"
          /\ page' = IF awaitThrows(o) \/ dataSuccessThrows(o.data)
                     THEN handleSubmitCatch(page, i)
                     ELSE handleSubmitAnswered(page, i, o.data)
    /\ UNCHANGED <<handlerVars, fn>>

InitPage ==
    /\ HandlerIdle
    /\ fn = FnIdle
    /\ page = PageInit

NextPage ==
    \/ render
    \/ inputOnChange
    \/ recaptchaOnChange
    \/ recaptchaOnExpired
    \/ recaptchaOnError
    \/ handleSubmit
    \/ pageFetchSettled
    \/ pageJsonSettled

SpecPage == InitPage /\ [][NextPage]_vars

(***************************************************************************)
(* Vocabulary of the properties                                            *)
(***************************************************************************)
GateOrder == <<"shape", "security", "token", "recaptcha", "email">>

IsPrefix(s, t) == Len(s) <= Len(t) /\ s = SubSeq(t, 1, Len(s))

Answered(h) == pc[h] = "done" /\ Len(responses[h]) > 0

Status(h) == responses[h][Len(responses[h])].status

ResponseBody(h) == responses[h][Len(responses[h])].body

SendCalls(h) == SelectSeq(calls[h], LAMBDA c : c \in {CallNotification, CallAutoReply})

VerifyCalls(h) == SelectSeq(calls[h], LAMBDA c : c = CallVerify)

\* the promise awaited at position a has settled as resolved / rejected
ResolvedAt(h, a) ==
    \E i \in 1..Len(outcomes[h]) :
        outcomes[h][i].await = a /\ outcomes[h][i].o.result = "resolved"

RejectedAt(h, a) ==
    \E i \in 1..Len(outcomes[h]) :
        outcomes[h][i].await = a /\ outcomes[h][i].o.result = "rejected"

BothSendsResolved(h) == ResolvedAt(h, "notification") /\ ResolvedAt(h, "autoreply")

\* the recaptchaToken of the request body (a body that is no object has none)
BodyToken == IF req.body.t = "object" THEN Prop(req.body, "recaptchaToken") ELSE Undefined

TokenAbsentOrEmpty == BodyToken \in {Undefined, Str(<<>>)}

\* the first gate of the pipeline that fails for instance h (0: none)
FirstFailingGate(h) ==
    IF ~validateContactForm(req.body) THEN 1
    ELSE IF ~validateSecurityAnswer(Prop(req.body, "securityAnswer").v) THEN 2
    ELSE IF ~Truthy(Prop(req.body, "recaptchaToken")) THEN 3
    ELSE IF ~Truthy(vr[h]) THEN 4
    ELSE IF ~BothSendsResolved(h) THEN 5
    ELSE 0

(***************************************************************************)
(* C1: a POST request is answered by the first failing gate, in the fixed  *)
(* order shape, security answer, token presence, reCAPTCHA verification,   *)
(* email: gates 1-4 answer 400 and nothing after the failing gate is       *)
(* evaluated, the email step answers 500, and 200 needs all five.          *)
(***************************************************************************)
C1_FirstFailingGateDecides ==
    \A h \in Instances :
        /\ IsPrefix(gates[h], GateOrder)
        /\ (Answered(h) /\ req.method = "POST") =>
            LET g == FirstFailingGate(h) IN
            /\ g \in 1..4 => Status(h) = 400 /\ gates[h] = SubSeq(GateOrder, 1, g)
            /\ g = 5 => Status(h) = 500 /\ gates[h] = GateOrder
            /\ g = 0 => Status(h) = 200 /\ gates[h] = GateOrder

C1_Witness ==
    /\ Answered("serverless") /\ Status("serverless") = 400
    /\ gates["serverless"] = SubSeq(GateOrder, 1, 4)
    /\ Answered("express") /\ Status("express") = 500
    /\ RejectedAt("express", "autoreply")

(***************************************************************************)
(* C2: a 200 response implies that the body passed validateContactForm,    *)
(* the answer passed validateSecurityAnswer, a non-empty token was         *)
(* present, verifyRecaptcha returned true and both sendMail calls          *)
(* resolved.                                                               *)
(***************************************************************************)
C2_OkImpliesAllGates ==
    \A h \in Instances :
        \A i \in 1..Len(responses[h]) :
            responses[h][i].status = 200 =>
                /\ validateContactForm(req.body)
                /\ validateSecurityAnswer(Prop(req.body, "securityAnswer").v)
                /\ ~TokenAbsentOrEmpty
                /\ vr[h] = Bool(TRUE)
                /\ SendCalls(h) = <<CallNotification, CallAutoReply>>
                /\ BothSendsResolved(h)

C2_Witness ==
    /\ Answered("serverless") /\ Status("serverless") = 200
    /\ Answered("express") /\ Status("express") # 200
    /\ validateContactForm(req.body)

(***************************************************************************)
(* C3: sendContactEmail sends in sequence: the notification first, the     *)
(* auto-reply only after the notification send resolved, never both in     *)
(* flight, and a successful run makes exactly the two calls in that order. *)
(***************************************************************************)
C3_SendsInSequence ==
    \A h \in ServerlessInstances :
        /\ ~({CallNotification, CallAutoReply} \subseteq inflight[h])
        /\ IsPrefix(SendCalls(h), <<CallNotification, CallAutoReply>>)
        /\ Len(SendCalls(h)) = 2 => ResolvedAt(h, "notification")
        /\ (Answered(h) /\ ResponseBody(h) = [success |-> TRUE, message |-> LibMsgAccepted])
               => SendCalls(h) = <<CallNotification, CallAutoReply>>

C3_Witness ==
    /\ pc["serverless"] = "autoreply"
    /\ inflight["serverless"] = {CallAutoReply}
    /\ ResolvedAt("serverless", "notification")

(***************************************************************************)
(* C4: when the notification send or the auto-reply send rejects, the      *)
(* result is the failure with the one fixed generic error string, the      *)
(* handler answers 500 with that string and not with the text of the       *)
(* rejection, and no send is issued again.                                 *)
(***************************************************************************)
C4_SendFailureIsGeneric ==
    \A h \in ServerlessInstances :
        (RejectedAt(h, "notification") \/ RejectedAt(h, "autoreply")) =>
            /\ Answered(h)
            /\ Len(responses[h]) = 1
            /\ Status(h) = 500
            /\ ResponseBody(h) = [error |-> LibErrSendFailed]
            /\ \A r \in Rejections : ResponseBody(h).error # r.error
            /\ IsPrefix(SendCalls(h), <<CallNotification, CallAutoReply>>)
            /\ RejectedAt(h, "notification") => SendCalls(h) = <<CallNotification>>

C4_Witness ==
    /\ ResolvedAt("serverless", "notification")
    /\ RejectedAt("serverless", "autoreply")
    /\ Answered("serverless")

(***************************************************************************)
(* C5: verifyRecaptcha called with no secret key (undefined or empty)      *)
(* returns true whatever the token and makes no network call.              *)
(***************************************************************************)
VerifyRecaptchaCalled(h) == Len(gates[h]) >= 4

VerifyRecaptchaReturned(h) ==
    VerifyRecaptchaCalled(h) /\ pc[h] \in {"verified", "notification", "autoreply", "done"}

C5_NoSecretSkipsVerification ==
    \A h \in ServerlessInstances :
        (VerifyRecaptchaCalled(h) /\ env.RECAPTCHA_SECRET_KEY \in {Undefined, Str(<<>>)}) =>
            /\ VerifyRecaptchaReturned(h)
            /\ vr[h] = Bool(TRUE)
            /\ VerifyCalls(h) = <<>>
            /\ CallVerify \notin inflight[h]
            /\ ~\E i \in 1..Len(outcomes[h]) : outcomes[h][i].await \in {"fetch", "json"}

C5_Witness ==
    /\ env.RECAPTCHA_SECRET_KEY = Str(<<>>)
    /\ BodyToken = Num(7)
    /\ pc["serverless"] = "verified"

(***************************************************************************)
(* C6: verifyRecaptcha called with a secret key issues exactly one POST    *)
(* to the verification endpoint and returns true when the endpoint reports *)
(* success:true, false when it reports success:false, and false when the   *)
(* call or the reading of its response throws; the caller always gets a    *)
(* value, never an exception.                                              *)
(***************************************************************************)
JsonResolvedWith(h, d) ==
    \E i \in 1..Len(outcomes[h]) :
        outcomes[h][i] = [await |-> "json", o |-> [result |-> "resolved", data |-> d]]

C6_VerifyWithSecret ==
    \A h \in ServerlessInstances :
        (VerifyRecaptchaCalled(h) /\ Truthy(env.RECAPTCHA_SECRET_KEY)) =>
            /\ VerifyCalls(h) = <<CallVerify>>
            /\ pc[h] \in {"fetch", "json"} \/ VerifyRecaptchaReturned(h)
            /\ VerifyRecaptchaReturned(h) =>
                /\ JsonResolvedWith(h, [t |-> "object", f |-> [success |-> Bool(TRUE)]])
                      => vr[h] = Bool(TRUE)
                /\ JsonResolvedWith(h, [t |-> "object", f |-> [success |-> Bool(FALSE)]])
                      => vr[h] = Bool(FALSE)
                /\ RejectedAt(h, "fetch") => vr[h] = Bool(FALSE)
                /\ RejectedAt(h, "json") => vr[h] = Bool(FALSE)
                /\ JsonResolvedWith(h, Null) => vr[h] = Bool(FALSE)
                /\ RejectedAt(h, "fetch") \/ RejectedAt(h, "json") \/ ResolvedAt(h, "json")

C6_Witness ==
    /\ pc["serverless"] = "verified"
    /\ RejectedAt("serverless", "json")
    /\ vr["serverless"] = Bool(FALSE)

(***************************************************************************)
(* C7: a request whose body has no recaptchaToken (absent or empty) is     *)
(* answered 400 by both variants, also when no reCAPTCHA secret key is     *)
(* configured, and verifyRecaptcha is not reached.                         *)
(***************************************************************************)
C7_TokenRequiredWithoutSecret ==
    \A h \in Instances :
        (req.method = "POST" /\ TokenAbsentOrEmpty /\ pc[h] # "start") =>
            /\ Answered(h)
            /\ Status(h) = 400
            /\ ~VerifyRecaptchaCalled(h)
            /\ calls[h] = <<>>

C7_Witness ==
    /\ ~Truthy(env.RECAPTCHA_SECRET_KEY)
    /\ TokenAbsentOrEmpty
    /\ \A h \in Instances :
        Answered(h) /\ Status(h) = 400 /\ gates[h] = <<"shape", "security", "token">>

(***************************************************************************)
(* C8: every 400 response of the contact endpoint, in both variants, has   *)
(* a body containing success:false together with an error string.          *)
(***************************************************************************)
HasSuccessFalseAndError(body) ==
    /\ {"success", "error"} \subseteq DOMAIN body
    /\ body.success = FALSE

C8_Every400HasSuccessFalse ==
    \A h \in Instances :
        \A i \in 1..Len(responses[h]) :
            responses[h][i].status = 400 => HasSuccessFalseAndError(responses[h][i].body)

(***************************************************************************)
(* C9: for the same POST body, the same configuration and the same         *)
(* outcomes of the external calls, the Express route and the serverless    *)
(* handler return the same status code and issue the same sequence of      *)
(* outbound calls.                                                         *)
(***************************************************************************)
Min(a, b) == IF a <= b THEN a ELSE b

\* two instances were given the same outcomes as far as both asked for one
SameOutcomes(g, h) ==
    \A i \in 1..Min(Len(outcomes[g]), Len(outcomes[h])) : outcomes[g][i] = outcomes[h][i]

C9_VariantsAgree ==
    \A g \in ExpressInstances, h \in ServerlessInstances :
        (req.method = "POST" /\ Answered(g) /\ Answered(h) /\ SameOutcomes(g, h)) =>
            /\ Status(g) = Status(h)
            /\ calls[g] = calls[h]
            /\ outcomes[g] = outcomes[h]

C9_Witness ==
    /\ req.method = "POST"
    /\ Answered("express") /\ Answered("serverless")
    /\ outcomes["express"] = outcomes["serverless"]
    /\ Len(outcomes["express"]) = 3
    /\ Status("express") = 500
    /\ calls["express"] = <<CallVerify, CallNotification>>

(***************************************************************************)
(* C10: without mail credentials a request that passes the four            *)
(* validation gates is answered 500 by both variants without any sendMail  *)
(* call, and a request that fails one of the four gates is still answered  *)
(* 400.                                                                    *)
(***************************************************************************)
CredentialsNotConfigured ==
    env.GMAIL_USER = Undefined \/ env.GMAIL_APP_PASSWORD = Undefined

C10_MissingCredentials ==
    \A h \in Instances :
        CredentialsNotConfigured =>
            /\ SendCalls(h) = <<>>
            /\ (req.method = "POST" /\ Answered(h)) =>
                IF /\ validateContactForm(req.body)
                   /\ validateSecurityAnswer(Prop(req.body, "securityAnswer").v)
                   /\ Truthy(Prop(req.body, "recaptchaToken"))
                   /\ Truthy(vr[h])
                THEN Status(h) = 500
                ELSE Status(h) = 400

C10_Witness ==
    /\ env.GMAIL_USER # Undefined
    /\ env.GMAIL_APP_PASSWORD = Undefined
    /\ \A h \in Instances : Answered(h) /\ Status(h) = 500 /\ gates[h] = GateOrder

(***************************************************************************)
(* C11: the serverless handler answers every request whose method is not   *)
(* POST with 405, before validating the body and without any verification *)
(* call or mail.                                                           *)
(***************************************************************************)
C11_NonPostIs405 ==
    \A h \in ServerlessInstances :
        (req.method # "POST" /\ pc[h] # "start") =>
            /\ Answered(h)
            /\ Len(responses[h]) = 1
            /\ Status(h) = 405
            /\ gates[h] = <<>>
            /\ calls[h] = <<>>
            /\ outcomes[h] = <<>>

C11_Witness ==
    /\ req.method = "PUT"
    /\ req.body.t = "object"
    /\ validateContactForm(req.body)
    /\ Answered("serverless") /\ Status("serverless") = 405

(***************************************************************************)
(* Vocabulary of the properties of the validators                          *)
(***************************************************************************)
BlankChars == {" ", "\t", "\n", "U3000"}

Field(d, k) == IF d.t = "object" /\ k \in DOMAIN d.f THEN d.f[k] ELSE Undefined

IsText(x) == x.t = "string"

\* a string with a character that trimming keeps
NonBlankText(x) == IsText(x) /\ \E i \in 1..Len(x.v) : x.v[i] \notin BlankChars

TextWithAt(x) == IsText(x) /\ \E i \in 1..Len(x.v) : x.v[i] = "@"

ValidForm(d) ==
    /\ d.t = "object"
    /\ NonBlankText(Field(d, "name"))
    /\ TextWithAt(Field(d, "email"))
    /\ NonBlankText(Field(d, "message"))
    /\ IsText(Field(d, "securityAnswer"))

Returned(f) == fn.st = "returned" /\ fn.f = f

\* d with its optional properties replaced
WithOptional(d, c, p, k) ==
    [t |-> "object",
     f |-> [j \in {i \in FormKeys :
                     \/ i \in {"name", "email", "message", "securityAnswer"} /\ i \in DOMAIN d.f
                     \/ i = "company" /\ c # Undefined
                     \/ i = "phone" /\ p # Undefined
                     \/ i = "recaptchaToken" /\ k # Undefined} |->
              CASE j = "company" -> c
                [] j = "phone" -> p
                [] j = "recaptchaToken" -> k
                [] OTHER -> d.f[j]]]

(***************************************************************************)
(* C12: validateContactForm returns true exactly for a non-null object     *)
(* whose name and message are strings that are not blank, whose email is a *)
(* string containing "@" and whose securityAnswer is a string; it returns  *)
(* false for null, undefined, non-objects, {} and objects missing one of   *)
(* the four, and the result does not depend on company, phone or           *)
(* recaptchaToken.                                                         *)
(***************************************************************************)
C12_ValidateContactFormExact ==
    Returned("validateContactForm") =>
        /\ fn.ret = Bool(ValidForm(fn.arg))
        /\ fn.arg.t # "object" => fn.ret = Bool(FALSE)
        /\ (fn.arg.t = "object" /\
            \E k \in {"name", "email", "message", "securityAnswer"} : k \notin DOMAIN fn.arg.f)
               => fn.ret = Bool(FALSE)
        /\ fn.arg.t = "object" =>
               \A c \in FormCompanyInputs, p \in FormPhoneInputs, k \in FormTokenInputs :
                   Bool(validateContactForm(WithOptional(fn.arg, c, p, k))) = fn.ret

C12_Witness ==
    /\ Returned("validateContactForm")
    /\ fn.ret = Bool(TRUE)
    /\ Field(fn.arg, "company") = Num(5)
    /\ Field(fn.arg, "name") = Str(<<" ", "a", " ">>)

(***************************************************************************)
(* C13 as stated: a submission is valid only if the four required fields   *)
(* name, email, message and securityAnswer are present and not blank after *)
(* trimming and email contains "@".                                        *)
(***************************************************************************)
C13_ValidOnlyIfAllNonBlank ==
    (fn.st = "returned" /\ fn.f \in {"validateContactForm", "expressValidateContactForm"}
       /\ fn.ret = Bool(TRUE)) =>
        /\ NonBlankText(Field(fn.arg, "name"))
        /\ NonBlankText(Field(fn.arg, "email"))
        /\ TextWithAt(Field(fn.arg, "email"))
        /\ NonBlankText(Field(fn.arg, "message"))
        /\ NonBlankText(Field(fn.arg, "securityAnswer"))

(***************************************************************************)
(* C13 as amended: a submission is valid only if name, email and message   *)
(* are present and not blank after trimming, email contains "@", and       *)
(* securityAnswer is present as a string, which may be blank.              *)
(***************************************************************************)
C13_ValidOnlyIfRequiredPresent ==
    (fn.st = "returned" /\ fn.f \in {"validateContactForm", "expressValidateContactForm"}
       /\ fn.ret = Bool(TRUE)) =>
        /\ NonBlankText(Field(fn.arg, "name"))
        /\ NonBlankText(Field(fn.arg, "email"))
        /\ TextWithAt(Field(fn.arg, "email"))
        /\ NonBlankText(Field(fn.arg, "message"))
        /\ "securityAnswer" \in DOMAIN fn.arg.f
        /\ IsText(Field(fn.arg, "securityAnswer"))

C13_Witness ==
    /\ Returned("expressValidateContactForm")
    /\ fn.ret = Bool(TRUE)
    /\ Field(fn.arg, "securityAnswer") = Str(<<>>)

(***************************************************************************)
(* C14: validateSecurityAnswer returns true for every input that, without  *)
(* its whitespace and dots and in lower case, is one of the accepted       *)
(* spellings treated the same way (so for any casing, spacing or dotting   *)
(* of an accepted spelling), and false for every other text, among them    *)
(* the empty string and texts of whitespace and dots only.                 *)
(***************************************************************************)
AcceptedSpellings ==
    { <<"U5BCC", "U58EB", "U5C71">>,
      <<"U3075", "U3058", "U3055", "U3093">>,
      <<"U30D5", "U30B8", "U30B5", "U30F3">>,
      <<"f", "u", "j", "i", "s", "a", "n">>,
      <<"m", "t", ".", "f", "u", "j", "i">>,
      <<"m", "t", "f", "u", "j", "i">>,
      <<"m", "o", "u", "n", "t", " ", "f", "u", "j", "i">> }

\* the accepted spellings without whitespace and dots, in lower case
CanonicalAccepted ==
    { <<"U5BCC", "U58EB", "U5C71">>,
      <<"U3075", "U3058", "U3055", "U3093">>,
      <<"U30D5", "U30B8", "U30B5", "U30F3">>,
      <<"f", "u", "j", "i", "s", "a", "n">>,
      <<"m", "t", "f", "u", "j", "i">>,
      <<"m", "o", "u", "n", "t", "f", "u", "j", "i">> }

Canonical(t) ==
    LET kept == SelectSeq(t, LAMBDA c : c \notin BlankChars \cup {"."})
    IN  [i \in 1..Len(kept) |-> LowerChar(kept[i])]

C14_SecurityAnswerNormalized ==
    Returned("validateSecurityAnswer") =>
        /\ fn.ret = Bool(Canonical(fn.arg.v) \in CanonicalAccepted)
        /\ fn.base \in AcceptedSpellings => fn.ret = Bool(TRUE)
        /\ Canonical(fn.arg.v) = <<>> => fn.ret = Bool(FALSE)

C14_Witness ==
    /\ Returned("validateSecurityAnswer")
    /\ fn.arg = Str(<<"U3000">> \o TextMtFuji)
    /\ fn.ret = Bool(TRUE)

C14_WitnessRejected ==
    /\ Returned("validateSecurityAnswer")
    /\ fn.arg = Str(<<" ", ".">>)
    /\ fn.ret = Bool(FALSE)

(***************************************************************************)
(* C15: escapeHtml replaces each &, <, >, " and ' of its input by &amp;,   *)
(* &lt;, &gt;, &quot; and &#039;, keeps every other character and the      *)
(* order, and never escapes the & of a replacement: the result holds no    *)
(* reserved character outside these five entities, reading the entities    *)
(* back gives the input, and it has one & for each reserved character of   *)
(* the input. A text with no reserved character is returned unchanged.     *)
(***************************************************************************)
Reserved == {"&", "<", ">", "\"", "'"}

Entity(c) ==
    CASE c = "&"  -> <<"&", "a", "m", "p", ";">>
      [] c = "<"  -> <<"&", "l", "t", ";">>
      [] c = ">"  -> <<"&", "g", "t", ";">>
      [] c = "\"" -> <<"&", "q", "u", "o", "t", ";">>
      [] c = "'"  -> <<"&", "#", "0", "3", "9", ";">>

StartsWithEntity(t) == \E c \in Reserved : IsPrefix(Entity(c), t)

LeadingEntity(t) == CHOOSE c \in Reserved : IsPrefix(Entity(c), t)

\* t holds reserved characters only as the & of an entity
OnlyEntities(t) ==
    \A i \in 1..Len(t) :
        t[i] \in Reserved =>
            /\ t[i] = "&"
            /\ \E c \in Reserved :
                  /\ i + Len(Entity(c)) - 1 <= Len(t)
                  /\ SubSeq(t, i, i + Len(Entity(c)) - 1) = Entity(c)

\* t with each entity read back as its character
RECURSIVE Unescape(_)
Unescape(t) ==
    IF t = <<>> THEN <<>>
    ELSE IF StartsWithEntity(t)
         THEN <<LeadingEntity(t)>> \o
              Unescape(SubSeq(t, Len(Entity(LeadingEntity(t))) + 1, Len(t)))
         ELSE <<Head(t)>> \o Unescape(Tail(t))

CountIn(t, cs) == Cardinality({ i \in 1..Len(t) : t[i] \in cs })

C15_EscapeHtmlSinglePass ==
    Returned("escapeHtml") =>
        /\ fn.ret.t = "string"
        /\ OnlyEntities(fn.ret.v)
        /\ Unescape(fn.ret.v) = fn.arg.v
        /\ CountIn(fn.ret.v, {"&"}) = CountIn(fn.arg.v, Reserved)
        /\ CountIn(fn.arg.v, Reserved) = 0 => fn.ret = fn.arg

C15_Witness ==
    /\ Returned("escapeHtml")
    /\ fn.arg = Str(<<"&", "l", "t", ";">>)
    /\ fn.ret = Str(<<"&", "a", "m", "p", ";", "l", "t", ";">>)

C15_WitnessUnchanged ==
    /\ Returned("escapeHtml")
    /\ fn.arg = Str(<<>>)
    /\ fn.ret = Str(<<>>)

(***************************************************************************)
(* C16: in the html of every message handed to sendMail, by                *)
(* sendContactEmail and by the Express route, the user's fields appear     *)
(* only escaped: the html holds no <, >, " or ' as a character of its own  *)
(* and no & outside an entity, never the raw text <script>, and for each   *)
(* field with a value it holds the escaped form of the value and, when     *)
(* the value has a <, >, " or ', not the value itself.                     *)
(***************************************************************************)
UserFields == {"name", "company", "email", "phone", "message"}

RECURSIVE EscapedForm(_)
EscapedForm(t) ==
    IF t = <<>> THEN <<>>
    ELSE (IF Head(t) \in Reserved THEN Entity(Head(t)) ELSE <<Head(t)>>)
         \o EscapedForm(Tail(t))

Occurs(p, t) == \E i \in 0..(Len(t) - Len(p)) : SubSeq(t, i + 1, i + Len(p)) = p

C16_HtmlHoldsEscapedFieldsOnly ==
    \A h \in Instances : \A i \in 1..Len(sent[h]) :
        LET html == sent[h][i].html.v IN
        /\ OnlyEntities(html)
        /\ ~Occurs(TextScript, html)
        /\ \A k \in UserFields :
              LET v == Field(req.body, k) IN
              (IsText(v) /\ v.v # <<>>) =>
                  /\ Occurs(EscapedForm(v.v), html)
                  /\ CountIn(v.v, {"<", ">", "\"", "'"}) > 0 => ~Occurs(v.v, html)

C16_Witness ==
    /\ \A h \in Instances : Len(sent[h]) = 2
    /\ \A k \in UserFields :
          IsText(Field(req.body, k)) /\ Occurs(TextScript, Field(req.body, k).v)
    /\ Occurs(<<"&", "l", "t", ";", "s", "c", "r", "i", "p", "t", "&", "g", "t", ";">>,
              sent["express"][2].html.v)

(***************************************************************************)
(* C17: the first message handed to sendMail goes to the operator address  *)
(* (GMAIL_USER), has the submitter's email as replyTo and a subject that   *)
(* holds the submitter's name; the second goes to the submitter's email    *)
(* and has the fixed subject that confirms receipt.  The messages are the  *)
(* ones of the two sendMail calls, and an accepted submission has both.    *)
(***************************************************************************)
ReceiptSubject == Str(<<"[Smile Support] (we have accepted your inquiry)">>)

C17_MessagesAddressed ==
    \A h \in Instances :
        /\ Len(sent[h]) = Len(SendCalls(h))
        /\ Len(sent[h]) >= 1 =>
              /\ SendCalls(h)[1] = CallNotification
              /\ Truthy(env.GMAIL_USER)
              /\ sent[h][1].to = env.GMAIL_USER
              /\ sent[h][1].replyTo = Field(req.body, "email")
              /\ NonBlankText(Field(req.body, "name"))
              /\ Occurs(Field(req.body, "name").v, sent[h][1].subject.v)
        /\ Len(sent[h]) >= 2 =>
              /\ SendCalls(h)[2] = CallAutoReply
              /\ IsText(Field(req.body, "email"))
              /\ sent[h][2].to = Field(req.body, "email")
              /\ sent[h][2].subject = ReceiptSubject
        /\ (Answered(h) /\ Status(h) = 200) => Len(sent[h]) = 2

C17_Witness ==
    \A h \in Instances :
        /\ Answered(h)
        /\ Status(h) = 200
        /\ Len(sent[h]) = 2
        /\ sent[h][1].to = Str(<<"o", "p", "@", "g">>)
        /\ sent[h][2].to = Str(<<"a", "@", "b">>)

(***************************************************************************)
(* C18: a POST whose body is malformed or incomplete (not a valid form, or *)
(* with company or phone present and not a string) is answered with 400    *)
(* and never with 500, the mail credentials being configured.              *)
(***************************************************************************)
MalformedOptional(d, k) == Field(d, k) # Undefined /\ ~IsText(Field(d, k))

MalformedSubmission ==
    \/ ~ValidForm(req.body)
    \/ MalformedOptional(req.body, "company")
    \/ MalformedOptional(req.body, "phone")

C18_MalformedIs400 ==
    \A h \in Instances :
        (/\ req.method = "POST"
         /\ Answered(h)
         /\ MalformedSubmission
         /\ ~CredentialsNotConfigured) => Status(h) = 400

(***************************************************************************)
(* C19: within each variant the message of a 400 response is the message   *)
(* of the gate that failed and of no other gate, and is not a message of   *)
(* a 500 response; the message of a 500 response is the message of no      *)
(* gate.  The failing gate can be read from the message.                   *)
(***************************************************************************)
Gates400 == {"shape", "security", "token", "recaptcha"}

GateMessages(h) ==
    IF h \in ServerlessInstances
    THEN [shape |-> SlErrShape, security |-> SlErrSecurity,
          token |-> SlErrToken, recaptcha |-> SlErrRecaptcha]
    ELSE [shape |-> ExErrShape, security |-> ExErrSecurity,
          token |-> ExErrToken, recaptcha |-> ExErrRecaptcha]

ServerErrorMessages(h) ==
    IF h \in ServerlessInstances THEN {SlErrConfig, LibErrSendFailed} ELSE {ExErrSendFailed}

LastGate(h) == gates[h][Len(gates[h])]

C19_GateMessagesDistinct ==
    \A h \in Instances :
        (Answered(h) /\ req.method = "POST" /\ Status(h) \in {400, 500}) =>
            LET e == ResponseBody(h).error IN
            /\ Status(h) = 400 =>
                  /\ LastGate(h) \in Gates400
                  /\ {g \in Gates400 : GateMessages(h)[g] = e} = {LastGate(h)}
                  /\ e \notin ServerErrorMessages(h)
            /\ Status(h) = 500 =>
                  /\ e \in ServerErrorMessages(h)
                  /\ \A g \in Gates400 : GateMessages(h)[g] # e

C19_Witness ==
    /\ Answered("serverless") /\ Status("serverless") = 400
    /\ LastGate("serverless") = "recaptcha"
    /\ ResponseBody("serverless").error = SlErrRecaptcha
    /\ Answered("express") /\ Status("express") = 500
    /\ ResponseBody("express").error = ExErrSendFailed

(***************************************************************************)
(* C20: nothing is retried.  Over the handling of one request each variant *)
(* calls the verification endpoint at most once and sendMail at most       *)
(* twice, once with the notification and once with the auto-reply, and a   *)
(* rejected call is the last thing the handler awaited: no call is issued  *)
(* or in flight after it.                                                  *)
(***************************************************************************)
CountOf(seq, c) == Cardinality({ i \in 1..Len(seq) : seq[i] = c })

C20_NoRetry ==
    \A h \in Instances :
        /\ CountOf(calls[h], CallVerify) <= 1
        /\ CountOf(calls[h], CallNotification) <= 1
        /\ CountOf(calls[h], CallAutoReply) <= 1
        /\ Len(SendCalls(h)) <= 2
        /\ Len(sent[h]) <= 2
        /\ Len(calls[h]) <= 1 + Cardinality({ i \in 1..Len(outcomes[h]) :
                                               /\ outcomes[h][i].await # "json"
                                               /\ outcomes[h][i].o.result = "resolved" })
        /\ \A i \in 1..Len(outcomes[h]) :
              outcomes[h][i].o.result = "rejected" =>
                  i = Len(outcomes[h]) /\ inflight[h] = {}

C20_Witness ==
    /\ Answered("serverless")
    /\ calls["serverless"] = <<CallVerify, CallNotification, CallAutoReply>>
    /\ RejectedAt("serverless", "autoreply")
    /\ Answered("express")
    /\ calls["express"] = <<CallVerify>>
    /\ RejectedAt("express", "fetch")

(***************************************************************************)
(* C21: requests handled at the same time are isolated.  The response of   *)
(* each request (status and error message) is the one that its own body,   *)
(* the configuration and the outcomes of its own outbound calls determine, *)
(* whatever happens to the other request; its notification is sent before  *)
(* its auto-reply; and every step changes the state of one request only.   *)
(***************************************************************************)
OwnAnswerAccepted(h) ==
    Canonical(Field(Request(h).body, "securityAnswer").v) \in CanonicalAccepted

OwnTokenPresent(h) ==
    LET k == Field(Request(h).body, "recaptchaToken") IN
    k # Undefined /\ k # Str(<<>>)

OwnVerified(h) ==
    \/ env.RECAPTCHA_SECRET_KEY = Undefined
    \/ JsonResolvedWith(h, [t |-> "object", f |-> [success |-> Bool(TRUE)]])

OwnGate(h) ==
    IF ~ValidForm(Request(h).body) THEN "shape"
    ELSE IF ~OwnAnswerAccepted(h) THEN "security"
    ELSE IF ~OwnTokenPresent(h) THEN "token"
    ELSE IF ~OwnVerified(h) THEN "recaptcha"
    ELSE IF ~BothSendsResolved(h) THEN "email"
    ELSE "none"

OwnStatus(h) ==
    CASE OwnGate(h) = "none"  -> 200
      [] OwnGate(h) = "email" -> 500
      [] OTHER                -> 400

OwnMessages(h) ==
    IF h \in ServerlessHandlers
    THEN [shape |-> SlErrShape, security |-> SlErrSecurity, token |-> SlErrToken,
          recaptcha |-> SlErrRecaptcha, email |-> LibErrSendFailed]
    ELSE [shape |-> ExErrShape, security |-> ExErrSecurity, token |-> ExErrToken,
          recaptcha |-> ExErrRecaptcha, email |-> ExErrSendFailed]

OwnState(h) ==
    <<pc[h], gates[h], vr[h], calls[h], sent[h], inflight[h], outcomes[h], responses[h]>>

RequestIsolated(h) ==
    /\ IsPrefix(SendCalls(h), <<CallNotification, CallAutoReply>>)
    /\ Len(responses[h]) <= 1
    /\ Answered(h) =>
          /\ Status(h) = OwnStatus(h)
          /\ OwnStatus(h) # 200 => ResponseBody(h).error = OwnMessages(h)[OwnGate(h)]

OneRequestSteps ==
    /\ \E h \in Handlers : \A g \in Handlers \ {h} : OwnState(g)' = OwnState(g)
    /\ <<env, req, req2>>' = <<env, req, req2>>

C21_RequestsIsolated ==
    /\ [](\A h \in Handlers : RequestIsolated(h))
    /\ [][OneRequestSteps]_vars

C21_Witness ==
    /\ Answered("serverless") /\ Status("serverless") = 500
    /\ Field(req.body, "company") = Num(5)
    /\ Answered("serverless2") /\ Status("serverless2") = 200
    /\ Len(outcomes["serverless"]) >= 1

(***************************************************************************)
(* C22: no outbound call is made for a request that fails an earlier gate. *)
(* The verification endpoint is called only for a POST whose body is a     *)
(* valid form with an accepted security answer and a token; sendMail is    *)
(* called only when, in addition, verifyRecaptcha has returned true and    *)
(* both mail credentials are configured.                                   *)
(***************************************************************************)
PassedFormGates(h) ==
    /\ Request(h).method = "POST"
    /\ ValidForm(Request(h).body)
    /\ OwnAnswerAccepted(h)
    /\ Truthy(Field(Request(h).body, "recaptchaToken"))

C22_NoCallBeforeGates ==
    \A h \in Instances :
        /\ (VerifyCalls(h) # <<>> \/ CallVerify \in inflight[h]) => PassedFormGates(h)
        /\ (SendCalls(h) # <<>> \/ sent[h] # <<>>) =>
              /\ PassedFormGates(h)
              /\ VerifyRecaptchaReturned(h)
              /\ vr[h] = Bool(TRUE)
              /\ Truthy(env.GMAIL_USER)
              /\ Truthy(env.GMAIL_APP_PASSWORD)

C22_Witness ==
    /\ pc["serverless"] = "fetch"
    /\ calls["serverless"] = <<CallVerify>>
    /\ pc["express"] = "notification"
    /\ calls["express"] = <<CallVerify, CallNotification>>

(***************************************************************************)
(* C23: every request receives exactly one response.  No instance writes   *)
(* more than one response, an answered instance takes no further step, a   *)
(* request whose message composition throws is answered 500 with the       *)
(* generic send-failed message, and, every awaited call settling, every    *)
(* request the endpoint handles is eventually answered.                    *)
(***************************************************************************)
Handles(h) == pc[h] = "start" /\ (h \in ServerlessInstances \/ req.method = "POST")

CompositionThrows(h) ==
    /\ PassedFormGates(h)
    /\ OwnVerified(h) \/ env.RECAPTCHA_SECRET_KEY = Str(<<>>)
    /\ Truthy(env.GMAIL_USER) /\ Truthy(env.GMAIL_APP_PASSWORD)
    /\ MalformedOptional(req.body, "company") \/ MalformedOptional(req.body, "phone")

OneResponse(h) ==
    /\ Len(responses[h]) <= 1
    /\ Answered(h) <=> Len(responses[h]) = 1
    /\ Answered(h) => inflight[h] = {}
    /\ (Answered(h) /\ CompositionThrows(h)) =>
          /\ Status(h) = 500
          /\ ResponseBody(h).error = OwnMessages(h).email
          /\ sent[h] = <<>>

C23_ExactlyOneResponse ==
    /\ [](\A h \in Instances : OneResponse(h))
    /\ [][\A h \in Instances : Answered(h) => OwnState(h)' = OwnState(h)]_vars
    /\ \A h \in Instances : Handles(h) ~> Answered(h)

C23_Witness ==
    /\ Answered("express") /\ CompositionThrows("express") /\ Status("express") = 500
    /\ Truthy(env.RECAPTCHA_SECRET_KEY)

(***************************************************************************)
(* C24: an optional field (company, phone) that is absent or empty shows   *)
(* as the placeholder "(not entered)" in the notification, in its HTML     *)
(* cell and on its text line; a present one shows as its value, escaped in *)
(* the HTML and as typed in the text.  The auto-reply has the field's      *)
(* paragraph and line only when the field is present.                      *)
(***************************************************************************)
OptionalFields == {"company", "phone"}

Label(k) == IF k = "company" THEN "(company)" ELSE "(phone)"
LabelColon(k) == IF k = "company" THEN "(company):" ELSE "(phone):"
LabelColonSpace(k) == IF k = "company" THEN "(company): " ELSE "(phone): "

Placeholder == <<"(not entered)">>

AbsentOrEmpty(v) == v \in {Undefined, Null, Str(<<>>)}

NotificationShows(m, k, shownHtml, shownText) ==
    /\ Occurs(<<Label(k), "</th>", "<td>">> \o shownHtml \o <<"</td>">>, m.html.v)
    /\ Occurs(<<LabelColonSpace(k)>> \o shownText \o <<"\n">>, m.text.v)

AutoReplyShows(m, k, shownHtml, shownText) ==
    /\ Occurs(<<LabelColon(k), "</strong>", " ">> \o shownHtml \o <<"</p>">>, m.html.v)
    /\ Occurs(<<LabelColonSpace(k)>> \o shownText \o <<"\n">>, m.text.v)

AutoReplyOmits(m, k) ==
    /\ ~Occurs(<<LabelColon(k)>>, m.html.v)
    /\ ~Occurs(<<LabelColonSpace(k)>>, m.text.v)

C24_OptionalFieldPlaceholder ==
    \A h \in Instances : \A k \in OptionalFields :
        LET v == Field(req.body, k) IN
        /\ Len(sent[h]) >= 1 =>
              IF AbsentOrEmpty(v)
              THEN NotificationShows(sent[h][1], k, Placeholder, Placeholder)
              ELSE NotificationShows(sent[h][1], k, EscapedForm(v.v), v.v)
        /\ Len(sent[h]) >= 2 =>
              IF AbsentOrEmpty(v)
              THEN AutoReplyOmits(sent[h][2], k)
              ELSE AutoReplyShows(sent[h][2], k, EscapedForm(v.v), v.v)

C24_Witness ==
    /\ \A h \in Instances : Len(sent[h]) = 2
    /\ Field(req.body, "company") = Str(<<>>)
    /\ Field(req.body, "phone") = Str(<<"\"">> \o TextScript)
    /\ Occurs(<<"(company): ", "(not entered)", "\n">>, sent["express"][1].text.v)

C24_WitnessAbsent ==
    /\ \A h \in Instances : Len(sent[h]) = 2
    /\ Field(req.body, "company") = Undefined
    /\ Field(req.body, "phone") = Undefined

(***************************************************************************)
(* C25: the two sends are in sequence and nothing is rolled back.  When    *)
(* the notification send rejects, sendMail has been called exactly once    *)
(* and the auto-reply is neither composed nor sent; when the notification  *)
(* resolves and the auto-reply rejects, the notification is the first      *)
(* message handed to sendMail and stays so, and the response is 500 with   *)
(* the failure message and no success=true.  The list of messages handed   *)
(* to sendMail only grows.                                                 *)
(***************************************************************************)
ReportsFailure(h) ==
    /\ Answered(h)
    /\ Status(h) = 500
    /\ ResponseBody(h).error = OwnMessages(h).email
    /\ "success" \in DOMAIN ResponseBody(h) => ResponseBody(h).success = FALSE

SendsInSequence(h) ==
    /\ RejectedAt(h, "notification") =>
          /\ SendCalls(h) = <<CallNotification>>
          /\ Len(sent[h]) = 1
          /\ CallAutoReply \notin inflight[h]
          /\ ReportsFailure(h)
    /\ (ResolvedAt(h, "notification") /\ RejectedAt(h, "autoreply")) =>
          /\ SendCalls(h) = <<CallNotification, CallAutoReply>>
          /\ Len(sent[h]) = 2
          /\ sent[h][1].to = env.GMAIL_USER
          /\ sent[h][1].replyTo = Field(req.body, "email")
          /\ ReportsFailure(h)

C25_SendsInSequence ==
    /\ [](\A h \in Instances : SendsInSequence(h))
    /\ [][\A h \in Instances : IsPrefix(sent[h], sent[h]')]_vars

C25_Witness ==
    /\ RejectedAt("serverless", "notification")
    /\ Len(sent["serverless"]) = 1
    /\ ResolvedAt("express", "notification")
    /\ RejectedAt("express", "autoreply")
    /\ Status("express") = 500

(***************************************************************************)
(* C26: whatever the text, the result of escapeHtml (the library's and the *)
(* Express server's) has no character <, >, " or ', and each & in it is    *)
(* the first character of &amp;, &lt;, &gt;, &quot; or &#039;.             *)
(***************************************************************************)
EscapeFunctions == {"escapeHtml", "expressEscapeHtml"}

EntityAt(t, i) ==
    \E c \in Reserved :
        /\ i + Len(Entity(c)) - 1 <= Len(t)
        /\ SubSeq(t, i, i + Len(Entity(c)) - 1) = Entity(c)

C26_EscapedOutputIsInert ==
    (fn.st = "returned" /\ fn.f \in EscapeFunctions) =>
        \A i \in 1..Len(fn.ret.v) :
            /\ fn.ret.v[i] \notin {"<", ">", "\"", "'"}
            /\ fn.ret.v[i] = "&" => EntityAt(fn.ret.v, i)

C26_Witness ==
    /\ Returned("expressEscapeHtml")
    /\ fn.arg = Str(<<"'", "&", "<", "\"">>)
    /\ fn.ret = Str(<<"&", "#", "0", "3", "9", ";", "&", "a", "m", "p", ";",
                      "&", "l", "t", ";", "&", "q", "u", "o", "t", ";">>)

C26_WitnessLibrary ==
    /\ Returned("escapeHtml")
    /\ fn.arg = Str(<<"&", "a", "m", "p", ";">>)
    /\ fn.ret = Str(<<"&", "a", "m", "p", ";", "a", "m", "p", ";">>)

(***************************************************************************)
(* C27: with a secret key configured, a verification answer whose JSON has *)
(* no success field, or a falsy one, counts as a failed verification: the  *)
(* value verifyRecaptcha returns is falsy, the request is answered 400     *)
(* with the reCAPTCHA-failed message, and sendMail is never called.        *)
(***************************************************************************)
Unsuccessful(d) == d # Null /\ ~Truthy(Prop(d, "success"))

AnsweredUnsuccessful(h) ==
    /\ Truthy(env.RECAPTCHA_SECRET_KEY)
    /\ \E d \in JsonData : Unsuccessful(d) /\ JsonResolvedWith(h, d)

C27_MissingSuccessFails ==
    \A h \in Instances :
        AnsweredUnsuccessful(h) =>
            /\ ~Truthy(vr[h])
            /\ SendCalls(h) = <<>> /\ sent[h] = <<>>
            /\ inflight[h] = {}
            /\ gates[h] = <<"shape", "security", "token", "recaptcha">>
            /\ pc[h] \in {"verified", "done"}
            /\ pc[h] = "done" =>
                  /\ Status(h) = 400
                  /\ ResponseBody(h).error = OwnMessages(h).recaptcha

C27_Witness ==
    /\ JsonResolvedWith("serverless", [t |-> "object", f |-> [score |-> Num(1)]])
    /\ Answered("serverless") /\ Status("serverless") = 400
    /\ JsonResolvedWith("express", [t |-> "object", f |-> [success |-> Bool(FALSE)]])
    /\ Answered("express") /\ Status("express") = 400

(***************************************************************************)
(* C28: the page posts to /api/contact only from a submit event whose      *)
(* handleSubmit reads isSubmitting false and a recaptchaToken that is not  *)
(* null.  While a request is in flight isSubmitting is true, in the state  *)
(* and in the render the handlers belong to, a submit event sends nothing, *)
(* and so the page never has two contact requests in flight.               *)
(***************************************************************************)
InFlight == Len(page.flights)

Posts == page'.posted # page.posted

OneInFlight ==
    /\ InFlight <= 1
    /\ InFlight = 1 => page.isSubmitting /\ page.rendered.isSubmitting

PostsOnlyWhenFree ==
    Posts =>
        /\ ~page.rendered.isSubmitting /\ ~page.isSubmitting
        /\ page.rendered.recaptchaToken # Null
        /\ InFlight = 0
        /\ page'.posted = Append(page.posted, page.rendered.recaptchaToken)
        /\ page'.flights = <<[recaptchaToken |-> page.rendered.recaptchaToken, at |-> "fetch"]>>

C28_OneRequestInFlight ==
    /\ []OneInFlight
    /\ [][PostsOnlyWhenFree]_vars

C28_Witness ==
    /\ InFlight = 1
    /\ page.last = [ev |-> "submit refused: in flight"]
    /\ page.posted = <<Token(1)>>

(***************************************************************************)
(* C29: when a submit attempt has completed, with the server reporting     *)
(* success, with the server reporting failure, or with fetch or the JSON   *)
(* parsing throwing, isSubmitting is false and recaptchaToken is null.     *)
(* Every token posted is one the widget issued, and no token is posted     *)
(* twice: each request carries a token issued after the previous attempt.  *)
(***************************************************************************)
AttemptCompleted == page.last.ev \in {"attempt answered", "attempt threw"}

IssuedTokens == { Token(n) : n \in 1..page.issued }

C29_TokenSpentByAttempt ==
    /\ AttemptCompleted => ~page.isSubmitting /\ page.recaptchaToken = Null
    /\ \A i \in 1..Len(page.posted) : page.posted[i] \in IssuedTokens
    /\ \A i, j \in 1..Len(page.posted) : page.posted[i] = page.posted[j] => i = j

C29_Witness ==
    /\ page.last.ev = "attempt answered"
    /\ ~dataSuccess(page.last.data)
    /\ page.posted = <<Token(1), Token(2)>>

C29_WitnessThrew ==
    /\ page.last.ev = "attempt threw"
    /\ page.posted = <<Token(1)>>

(***************************************************************************)
(* C30: the form fields change only by typing into one of them or by       *)
(* being emptied when an attempt is answered with success true.  An answer *)
(* without success true, a thrown fetch or JSON parsing, and a submit      *)
(* event refused for a missing token or a request in flight leave every    *)
(* field as it was.                                                        *)
(***************************************************************************)
SuccessTrue(d) == "success" \in DOMAIN d /\ d.success = TRUE

TypesOneField ==
    /\ page'.last.ev = "input"
    /\ \E k \in FormFields, v \in TypedValues :
          page'.formData = [page.rendered.formData EXCEPT ![k] = v]

EmptiedOnSuccess ==
    /\ page'.last.ev = "attempt answered"
    /\ SuccessTrue(page'.last.data)
    /\ Len(page'.flights) < Len(page.flights)
    /\ page'.formData = EmptyForm

LeavesFields ==
    /\ page'.formData = page.formData
    /\ page'.rendered.formData \in {page.rendered.formData, page.formData}

FieldsChangeOnlyBy ==
    /\ page'.formData # page.formData => TypesOneField \/ EmptiedOnSuccess
    /\ (page' # page /\ page'.last.ev \in {"attempt threw", "submit refused: no token",
                                            "submit refused: in flight"}) => LeavesFields
    /\ (page' # page /\ page'.last.ev = "attempt answered"
                     /\ ~SuccessTrue(page'.last.data)) => LeavesFields

C30_ClearedOnlyOnSuccess == [][FieldsChangeOnlyBy]_vars

C30_Witness ==
    /\ page.last.ev = "attempt answered"
    /\ page.last.data = [error |-> SlErrRecaptcha]
    /\ page.formData # EmptyForm

C30_WitnessCleared ==
    /\ page.last.ev = "attempt answered"
    /\ SuccessTrue(page.last.data)
    /\ page.formData = EmptyForm
    /\ page.rendered.formData # EmptyForm

=============================================================================
